---- MODULE Spec2Model ----
(***************************************************************************)
(* Position and cash accounting engine of the stocker portfolio backend    *)
(* (backend/portfolio/services.py, models.py, signals.py).                 *)
(*                                                                         *)
(* Decimal values are integers counting the smallest representable unit;   *)
(* a Decimal division is a division rounded half-even to that unit.        *)
(* Dates are day numbers.                                                  *)
(***************************************************************************)
EXTENDS Integers, Sequences, FiniteSets, TLC

VARIABLES
    \* ---- calculate_position: one replay of one instrument's transactions
    asset_currency,     \* asset.currency
    usd_to_hkd_rate,    \* the rate of this computation pass
    inventory,          \* long lots, oldest first
    short_inventory,    \* short lots, oldest first
    realized_pl,
    total_dividends,
    t,                  \* the transaction processed last (NoTxn before the first)
    pre,                \* the replay state before t was processed
    iters,              \* iterations of the matching loop while processing t
    n,                  \* number of transactions replayed
    ref,                \* reference FIFO matcher over unit shares (ghost)
    \* ---- the account's event log and its persisted cash balance
    cashflows,          \* CashFlow rows of the account
    transactions,       \* Transaction rows of the account
    \* ---- the persisted balance cache and the requests that update it
    balance,            \* the account's AccountBalance row (NoBalance: no row yet)
    lock,               \* the request whose database transaction holds the row (0: none)
    pc,                 \* where each request stands
    cash_data,          \* update_account_balance_cache's local cash_data, per request
    created,            \* get_or_create's second result, per request
    events,             \* number of events committed
    fresh,              \* per request: no event was committed since it computed cash_data (ghost)
    runs,               \* completed writes of a fresh cash_data since the last commit, up to 2 (ghost)
    failed,             \* the last write of the cache that ended, ended by failing (ghost)
    \* ---- ingestion of transactions
    request,            \* the row submitted last, and the path it came by (NoRequest before)
    outcome,            \* what the path did with it: rows stored, error reported
    imports,            \* number of rows submitted
    \* ---- the rate provider (get_usd_to_hkd_rate) and a dashboard request using it
    exchange_rate_cache, \* _exchange_rate_cache: rate and timestamp
    current_time,       \* time.time()
    call,               \* the last call of get_usd_to_hkd_rate: time, upstream answer, result (ghost)
    good,               \* the rate fetched successfully last, NoRate before (ghost)
    stored,             \* the rate stored in the cache last, and when (ghost)
    dash_pc,            \* where the dashboard request stands
    pass_rates,         \* the rates the dashboard request has converted with
    calls,              \* number of calls of get_usd_to_hkd_rate
    \* ---- the AccountBalance table seen row by row
    account_balances    \* the account's rows, each with the transaction that inserted or holds it

ledgerVars == <<asset_currency, usd_to_hkd_rate, inventory, short_inventory,
                realized_pl, total_dividends, t, pre, iters, n, ref>>

cashVars == <<cashflows, transactions>>

cacheVars == <<balance, lock, pc, cash_data, created, events, fresh, runs, failed>>

ingestVars == <<request, outcome, imports>>

\* the state outside the ledger replay, the event log and the balance cache
rateVars == <<exchange_rate_cache, current_time, call, good, stored, dash_pc,
              pass_rates, calls>>

tableVars == <<account_balances>>

extVars == <<ingestVars, rateVars, tableVars>>

vars == <<ledgerVars, cashVars, cacheVars, extVars>>

(***************************************************************************)
(* Bounds of the model                                                     *)
(***************************************************************************)
MaxTxns == 3
MaxRows == 3
MaxEvents == 3
MaxImports == 2
MaxLog == 3
MaxCalls == 4
MaxTicks == 2
NumProcs == 2

Prices == {10, 30}
Quantities == {1, 3}
Fees == {0, 1}
Rates == {8}
CurrentPrices == {0, 20}
Currencies == {"USD", "HKD"}

(***************************************************************************)
(* Helpers                                                                 *)
(***************************************************************************)
RECURSIVE SumSeq(_)
SumSeq(s) == IF s = <<>> THEN 0 ELSE Head(s) + SumSeq(Tail(s))

Abs(x) == IF x < 0 THEN -x ELSE x

Min(a, b) == IF a < b THEN a ELSE b

\* Decimal.__truediv__: the quotient rounded half-even to the unit (b > 0)
DecDiv(a, b) ==
    LET q == a \div b
        r == a % b
    IN  IF 2 * r < b THEN q
        ELSE IF 2 * r > b THEN q + 1
        ELSE IF q % 2 = 0 THEN q ELSE q + 1

\* the conversion of convert_from_usd taken for it: HKD is multiplied by the rate
convert_to_usdMut(amount, from_currency, rate) ==
    IF from_currency = "HKD" THEN amount * rate ELSE amount

convert_to_usd(amount, from_currency, rate) ==
    IF from_currency = "USD" THEN amount
    ELSE IF from_currency = "HKD" THEN DecDiv(amount, rate)
    ELSE amount

\* Transaction.total_amount
total_amountMut(txn) ==
    IF txn.action = "BUY" THEN -(txn.price * txn.quantity + txn.fees)
    ELSE txn.price * txn.quantity - txn.fees

total_amount(txn) ==
    IF txn.action = "BUY" THEN -(txn.price * txn.quantity + txn.fees)
    ELSE IF txn.action = "SELL" THEN txn.price * txn.quantity - txn.fees
    ELSE IF txn.action = "DIVIDEND" THEN txn.price * txn.quantity
    ELSE 0

NoTxn == [action |-> "NONE", price |-> 0, quantity |-> 0, fees |-> 0, date |-> 0]

Lot(price, quantity, date) == [price |-> price, quantity |-> quantity, date |-> date]

(***************************************************************************)
(* calculate_position: the replay loop                                     *)
(***************************************************************************)
\* `if batch['quantity'] > qty_to_buy` / `if batch['quantity'] > qty_to_sell`
BatchCoversMut(batch, qty) == batch.quantity >= qty
BatchCovers(batch, qty) == batch.quantity > qty

\* the BUY branch's `while qty_to_buy > 0 and short_inventory` loop; s carries
\* the loop's variables
RECURSIVE BuyLoop(_, _, _, _)
BuyLoop(s, price, cur, rate) ==
    IF ~(s.qty > 0 /\ s.short # <<>>) THEN s
    ELSE LET batch == Head(s.short)
         IN  IF BatchCovers(batch, s.qty)
             THEN BuyLoop(
                    [s EXCEPT !.short = <<[batch EXCEPT !.quantity = batch.quantity - s.qty]>>
                                          \o Tail(s.short),
                              !.gain = s.gain + convert_to_usd((batch.price - price) * s.qty, cur, rate),
                              !.qty = 0,
                              !.iters = s.iters + 1],
                    price, cur, rate)
             ELSE BuyLoop(
                    [s EXCEPT !.short = Tail(s.short),
                              !.gain = s.gain + convert_to_usd((batch.price - price) * batch.quantity, cur, rate),
                              !.qty = s.qty - batch.quantity,
                              !.iters = s.iters + 1],
                    price, cur, rate)

\* the whole BUY stored as a long lot, whatever part of it covered short lots
BuyOpenLongMut(inv, qty, txn) == Append(inv, Lot(txn.price, txn.quantity, txn.date))

\* `if qty_to_buy > 0: inventory.append(...)`
BuyOpenLong(inv, qty, txn) ==
    IF qty > 0 THEN Append(inv, Lot(txn.price, qty, txn.date)) ELSE inv

\* `realized_pl += total_gain - fees_usd`
RealizedAfterMut(realized, total_gain, fees_usd) == realized + total_gain
RealizedAfter(realized, total_gain, fees_usd) == realized + total_gain - fees_usd

\* the short lot a SELL opens when no long lot is left
ShortOpenLotMut(qty, txn) == Lot(txn.price, txn.quantity, txn.date)
ShortOpenLot(qty, txn) == Lot(txn.price, qty, txn.date)

\* the SELL branch's `while qty_to_sell > 0` loop
RECURSIVE SellLoop(_, _, _, _)
SellLoop(s, txn, cur, rate) ==
    IF ~(s.qty > 0) THEN s
    ELSE IF s.long = <<>>
    THEN [s EXCEPT !.short = Append(s.short, ShortOpenLot(s.qty, txn)),
                   !.gain = s.gain + convert_to_usd(s.qty * txn.price, cur, rate),
                   !.qty = 0,
                   !.iters = s.iters + 1]
    ELSE LET batch == Head(s.long)
         IN  IF BatchCovers(batch, s.qty)
             THEN SellLoop(
                    [s EXCEPT !.long = <<[batch EXCEPT !.quantity = batch.quantity - s.qty]>>
                                         \o Tail(s.long),
                              !.gain = s.gain + convert_to_usd((txn.price - batch.price) * s.qty, cur, rate),
                              !.qty = 0,
                              !.iters = s.iters + 1],
                    txn, cur, rate)
             ELSE SellLoop(
                    [s EXCEPT !.long = Tail(s.long),
                              !.gain = s.gain + convert_to_usd((txn.price - batch.price) * batch.quantity, cur, rate),
                              !.qty = s.qty - batch.quantity,
                              !.iters = s.iters + 1],
                    txn, cur, rate)

LoopStart(qty) ==
    [long |-> inventory, short |-> short_inventory, qty |-> qty, gain |-> 0, iters |-> 0]

\* step 4 of the result without its `elif current_quantity < 0` branch
AvgCostMut(long_total_cost_usd, long_quantity, short_total_cost_usd, short_quantity) ==
    IF long_quantity - short_quantity > 0 THEN DecDiv(long_total_cost_usd, long_quantity)
    ELSE 0

\* step 4 of the result: avg_cost_usd
AvgCost(long_total_cost_usd, long_quantity, short_total_cost_usd, short_quantity) ==
    IF long_quantity - short_quantity > 0 THEN DecDiv(long_total_cost_usd, long_quantity)
    ELSE IF long_quantity - short_quantity < 0
    THEN DecDiv(short_total_cost_usd, short_quantity)
    ELSE 0

\* step 6 of the result, the net-short branch computed like a long position's gain
UnrealizedPLMut(quantity, market_value_usd, long_cost_usd, avg_cost_usd, price_usd) ==
    IF quantity > 0 THEN market_value_usd - long_cost_usd
    ELSE IF quantity < 0 THEN (price_usd - avg_cost_usd) * Abs(quantity)
    ELSE 0

\* step 6 of the result: unrealized_pl_usd
UnrealizedPL(quantity, market_value_usd, long_cost_usd, avg_cost_usd, price_usd) ==
    IF quantity > 0 THEN market_value_usd - long_cost_usd
    ELSE IF quantity < 0 THEN (avg_cost_usd - price_usd) * Abs(quantity)
    ELSE 0

\* the result calculate_position computes after the loop (steps 1 to 7) from
\* the two queues and the two totals, for asset.current_price = cp
PositionOf(long, short, realized, dividends, cur, rate, cp) ==
    LET long_quantity == SumSeq([i \in 1..Len(long) |-> long[i].quantity])
        short_quantity == SumSeq([i \in 1..Len(short) |-> short[i].quantity])
        current_quantity == long_quantity - short_quantity
        long_total_cost == SumSeq([i \in 1..Len(long) |-> long[i].price * long[i].quantity])
        long_total_cost_usd == convert_to_usd(long_total_cost, cur, rate)
        short_total_cost ==
            SumSeq([i \in 1..Len(short) |-> short[i].price * short[i].quantity])
        short_total_cost_usd == convert_to_usd(short_total_cost, cur, rate)
        avg_cost_usd ==
            AvgCost(long_total_cost_usd, long_quantity, short_total_cost_usd, short_quantity)
        long_market_value == long_quantity * cp
        short_market_value == short_quantity * cp
        current_market_value == long_market_value - short_market_value
        current_market_value_usd == convert_to_usd(current_market_value, cur, rate)
        unrealized_pl_usd ==
            UnrealizedPL(current_quantity, current_market_value_usd, long_total_cost_usd,
                         avg_cost_usd, convert_to_usd(cp, cur, rate))
    IN  [currency |-> cur,
         quantity |-> current_quantity,
         avg_cost |-> avg_cost_usd,
         realized_pl |-> realized,
         total_dividends |-> dividends,
         current_market_value |-> current_market_value_usd,
         unrealized_pl |-> unrealized_pl_usd,
         long_market_value |-> convert_to_usd(long_market_value, cur, rate),
         short_market_value |-> Abs(convert_to_usd(short_market_value, cur, rate))]

\* position snapshot returned by calculate_position for asset.current_price = cp
Position(cp) ==
    PositionOf(inventory, short_inventory, realized_pl, total_dividends, asset_currency,
               usd_to_hkd_rate, cp)

\* one pass of calculate_position's `for t in transactions` loop; s carries
\* inventory, short_inventory, realized_pl and total_dividends
LedgerStep(s, txn, cur, rate) ==
    LET start == [long |-> s.long, short |-> s.short, qty |-> txn.quantity, gain |-> 0,
                  iters |-> 0]
        fees_usd == convert_to_usd(txn.fees, cur, rate)
        buy == BuyLoop(start, txn.price, cur, rate)
        sell == SellLoop(start, txn, cur, rate)
    IN  IF txn.action = "BUY"
        THEN [s EXCEPT !.short = buy.short,
                       !.long = BuyOpenLong(s.long, buy.qty, txn),
                       !.realized = RealizedAfter(s.realized, buy.gain, fees_usd)]
        ELSE IF txn.action = "SELL"
        THEN [s EXCEPT !.long = sell.long,
                       !.short = sell.short,
                       !.realized = RealizedAfter(s.realized, sell.gain, fees_usd)]
        ELSE IF txn.action = "DIVIDEND"
        THEN [s EXCEPT !.dividends = s.dividends + convert_to_usd(total_amount(txn), cur, rate)]
        ELSE s

\* calculate_position's loop over the transactions in the order it is given them
RECURSIVE LedgerReplay(_, _, _, _)
LedgerReplay(s, rows, cur, rate) ==
    IF rows = <<>> THEN s
    ELSE LedgerReplay(LedgerStep(s, Head(rows), cur, rate), Tail(rows), cur, rate)

\* `inventory = []`, `short_inventory = []`, `realized_pl = 0`, `total_dividends = 0`
EmptyLedger == [long |-> <<>>, short |-> <<>>, realized |-> 0, dividends |-> 0]

\* calculate_position(asset, user, usd_to_hkd_rate, prefetched_transactions = rows)
\* for an asset of currency cur and current price cp
calculate_position(rows, cur, rate, cp) ==
    LET s == LedgerReplay(EmptyLedger, rows, cur, rate)
    IN  PositionOf(s.long, s.short, s.realized, s.dividends, cur, rate, cp)

(***************************************************************************)
(* Reference FIFO matcher (ghost): every share is a unit of its own, a     *)
(* closing share is matched with the oldest open share of the other side;  *)
(* gains and fees are kept in the asset's currency.                        *)
(***************************************************************************)
RECURSIVE RefMatch(_, _, _, _)
RefMatch(r, action, price, k) ==
    IF k = 0 THEN r
    ELSE IF action = "BUY"
    THEN IF r.short # <<>>
         THEN RefMatch([r EXCEPT !.short = Tail(r.short),
                                 !.gain = r.gain + (Head(r.short) - price)],
                       action, price, k - 1)
         ELSE RefMatch([r EXCEPT !.long = Append(r.long, price)], action, price, k - 1)
    ELSE IF r.long # <<>>
         THEN RefMatch([r EXCEPT !.long = Tail(r.long),
                                 !.gain = r.gain + (price - Head(r.long))],
                       action, price, k - 1)
         ELSE RefMatch([r EXCEPT !.short = Append(r.short, price),
                                 !.short_proceeds = r.short_proceeds + price],
                       action, price, k - 1)

RefStep(r, txn) ==
    [RefMatch(r, txn.action, txn.price, txn.quantity) EXCEPT !.fees = r.fees + txn.fees]

(***************************************************************************)
(* One iteration of `for t in transactions`                                *)
(***************************************************************************)
PreState ==
    [long |-> inventory, short |-> short_inventory, realized |-> realized_pl,
     dividends |-> total_dividends, t |-> t,
     realized0 |-> pre.realized, flat0 |-> (pre.long = <<>> /\ pre.short = <<>>)]

Txn(action, p, q, f, d) ==
    [action |-> action, price |-> p, quantity |-> q, fees |-> f, date |-> d]

\* transactions arrive ordered by date: the same day as the last one, or a later one
NextDates == IF t = NoTxn THEN {1} ELSE {t.date, t.date + 1}

ProcessBuy ==
    /\ n < MaxTxns
    /\ \E p \in Prices, q \in Quantities, f \in Fees, d \in NextDates :
        LET txn == Txn("BUY", p, q, f, d)
            r == BuyLoop(LoopStart(q), p, asset_currency, usd_to_hkd_rate)
            fees_usd == convert_to_usd(f, asset_currency, usd_to_hkd_rate)
        IN  /\ short_inventory' = r.short
            /\ inventory' = BuyOpenLong(inventory, r.qty, txn)
            /\ realized_pl' = RealizedAfter(realized_pl, r.gain, fees_usd)
            /\ iters' = r.iters
            /\ t' = txn
            /\ ref' = RefStep(ref, txn)
    /\ pre' = PreState
    /\ n' = n + 1
    /\ UNCHANGED <<asset_currency, usd_to_hkd_rate, total_dividends>>
    /\ UNCHANGED <<cashVars, cacheVars, extVars>>

ProcessSell ==
    /\ n < MaxTxns
    /\ \E p \in Prices, q \in Quantities, f \in Fees, d \in NextDates :
        LET txn == Txn("SELL", p, q, f, d)
            r == SellLoop(LoopStart(q), txn, asset_currency, usd_to_hkd_rate)
            fees_usd == convert_to_usd(f, asset_currency, usd_to_hkd_rate)
        IN  /\ inventory' = r.long
            /\ short_inventory' = r.short
            /\ realized_pl' = RealizedAfter(realized_pl, r.gain, fees_usd)
            /\ iters' = r.iters
            /\ t' = txn
            /\ ref' = RefStep(ref, txn)
    /\ pre' = PreState
    /\ n' = n + 1
    /\ UNCHANGED <<asset_currency, usd_to_hkd_rate, total_dividends>>
    /\ UNCHANGED <<cashVars, cacheVars, extVars>>

ProcessDividend ==
    /\ n < MaxTxns
    /\ \E p \in Prices, q \in Quantities, f \in Fees, d \in NextDates :
        LET txn == Txn("DIVIDEND", p, q, f, d)
            dividend_amount == total_amount(txn)
        IN  /\ total_dividends' =
                total_dividends + convert_to_usd(dividend_amount, asset_currency, usd_to_hkd_rate)
            /\ t' = txn
    /\ iters' = 0
    /\ pre' = PreState
    /\ n' = n + 1
    /\ UNCHANGED <<asset_currency, usd_to_hkd_rate, inventory, short_inventory,
                   realized_pl, ref>>
    /\ UNCHANGED <<cashVars, cacheVars, extVars>>

\* the replay of an instrument that has no transaction yet
LedgerStart ==
    /\ inventory = <<>>
    /\ short_inventory = <<>>
    /\ realized_pl = 0
    /\ total_dividends = 0
    /\ t = NoTxn
    /\ pre = [long |-> <<>>, short |-> <<>>, realized |-> 0, dividends |-> 0, t |-> NoTxn,
              realized0 |-> 0, flat0 |-> TRUE]
    /\ iters = 0
    /\ n = 0
    /\ ref = [long |-> <<>>, short |-> <<>>, gain |-> 0, fees |-> 0, short_proceeds |-> 0]

Procs == 1..NumProcs

NoBalance == [cash_usd |-> 0, cash_hkd |-> 0, total_in_base |-> 0, exists |-> FALSE]

NoCash == [USD |-> 0, HKD |-> 0, total_in_base |-> 0]

NoRequest == [path |-> "none"]

\* None in _exchange_rate_cache
NoRate == 0
NoTime == -1

NoCall == [at |-> NoTime]

NoOutcome == [stored |-> 0, error |-> FALSE]

\* no request is running, nothing was submitted, the process has just started
Idle ==
    /\ lock = 0
    /\ pc = [p \in Procs |-> "idle"]
    /\ cash_data = [p \in Procs |-> NoCash]
    /\ created = [p \in Procs |-> FALSE]
    /\ events = 0
    /\ fresh = [p \in Procs |-> FALSE]
    /\ runs = 0
    /\ failed = FALSE
    /\ request = NoRequest
    /\ outcome = NoOutcome
    /\ imports = 0
    /\ exchange_rate_cache = [rate |-> NoRate, timestamp |-> NoTime]
    /\ current_time = 0
    /\ call = NoCall
    /\ good = NoRate
    /\ stored = [rate |-> NoRate, at |-> NoTime]
    /\ dash_pc = "idle"
    /\ pass_rates = <<>>
    /\ calls = 0
    /\ account_balances = <<>>

\* the account's tables before any event is committed
EmptyLog ==
    /\ cashflows = <<>>
    /\ transactions = <<>>
    /\ balance = NoBalance
    /\ Idle

LedgerInit ==
    /\ asset_currency \in Currencies
    /\ usd_to_hkd_rate \in Rates
    /\ LedgerStart
    /\ EmptyLog

LedgerNext == ProcessBuy \/ ProcessSell \/ ProcessDividend

SpecLedger == LedgerInit /\ [][LedgerNext]_vars

(***************************************************************************)
(* Properties of the Lot Ledger                                            *)
(***************************************************************************)
RECURSIVE TotalQty(_)
TotalQty(q) == IF q = <<>> THEN 0 ELSE Head(q).quantity + TotalQty(Tail(q))

Normalize(amount) == convert_to_usd(amount, asset_currency, usd_to_hkd_rate)

\* quantity of lot i of `queue` that a closing order of Q shares takes, oldest first
ClosedOf(queue, i, Q) ==
    LET before == TotalQty(SubSeq(queue, 1, i - 1))
    IN  IF Q <= before THEN 0 ELSE Min(queue[i].quantity, Q - before)

\* lots of `queue` expanded to unit shares, oldest first
RECURSIVE Units(_)
Units(queue) ==
    IF queue = <<>> THEN <<>>
    ELSE [i \in 1..Head(queue).quantity |-> Head(queue).price] \o Units(Tail(queue))

\* The order of matching is the reference's: both queues hold the shares the
\* reference FIFO matcher holds, in its order.
FifoQueuesMatchReference ==
    /\ Units(inventory) = ref.long
    /\ Units(short_inventory) = ref.short

\* What the replay accumulates instead: the reference's gains net of fees plus the
\* sale proceeds of every share sold short.
RealizedIsReferencePlusShortProceeds ==
    asset_currency = "USD" => realized_pl = ref.gain - ref.fees + ref.short_proceeds

\* C1: for any date-ordered sequence of BUY and SELL transactions the accumulated
\* realized gains equal those of the reference FIFO matcher (net of the fees),
\* and the lots left open are the reference's.
C1_RealizedMatchesReferenceFifo ==
    /\ FifoQueuesMatchReference
    /\ asset_currency = "USD" => realized_pl = ref.gain - ref.fees

\* C2: from no open lots, SELL q at p_open then BUY q at p_cover ends with
\* quantity 0 and realized_pl = (p_open - p_cover) * q - fees.
C2_ShortRoundTrip ==
    (pre.flat0 /\ pre.t.action = "SELL" /\ t.action = "BUY" /\ t.quantity = pre.t.quantity)
    => /\ \A cp \in CurrentPrices : Position(cp).quantity = 0
       /\ realized_pl - pre.realized0 =
            Normalize((pre.t.price - t.price) * t.quantity)
              - Normalize(pre.t.fees) - Normalize(t.fees)

\* C3: after every transaction every lot of both queues has remaining quantity
\* > 0, and the reported quantity is the long total minus the short total.
C3_LotsPositive ==
    /\ \A i \in 1..Len(inventory) : inventory[i].quantity > 0
    /\ \A i \in 1..Len(short_inventory) : short_inventory[i].quantity > 0
    /\ \A cp \in CurrentPrices :
          Position(cp).quantity = TotalQty(inventory) - TotalQty(short_inventory)

C3_Witness ==
    /\ t.action = "SELL"
    /\ Len(pre.long) = 2
    /\ Len(inventory) = 1
    /\ inventory[1].quantity < pre.long[2].quantity

\* C4: one SELL changes realized_pl by the gains of the long lots it closes minus
\* its fee, one BUY by the gains of the short lots it closes minus its fee; the
\* part that opens a new lot adds nothing.
C4_RealizedDeltaIsClosingGain ==
    /\ t.action = "SELL" =>
          realized_pl - pre.realized =
            SumSeq([i \in 1..Len(pre.long) |->
                      Normalize((t.price - pre.long[i].price) * ClosedOf(pre.long, i, t.quantity))])
              - Normalize(t.fees)
    /\ t.action = "BUY" =>
          realized_pl - pre.realized =
            SumSeq([i \in 1..Len(pre.short) |->
                      Normalize((pre.short[i].price - t.price) * ClosedOf(pre.short, i, t.quantity))])
              - Normalize(t.fees)

\* C5: a SELL beyond the long inventory empties the long queue and appends one
\* short lot for the remainder at its price and date, a BUY beyond the short
\* inventory symmetrically; the matching loop ends after at most one iteration
\* per lot plus one.
C5_OversellOpensOppositeLot ==
    /\ (t.action = "SELL" /\ t.quantity > TotalQty(pre.long)) =>
          /\ inventory = <<>>
          /\ short_inventory =
                Append(pre.short, Lot(t.price, t.quantity - TotalQty(pre.long), t.date))
    /\ (t.action = "BUY" /\ t.quantity > TotalQty(pre.short)) =>
          /\ short_inventory = <<>>
          /\ inventory =
                Append(pre.long, Lot(t.price, t.quantity - TotalQty(pre.short), t.date))
    /\ t.action = "SELL" => iters <= Len(pre.long) + 1
    /\ t.action = "BUY" => iters <= Len(pre.short)

C5_Witness ==
    /\ t.action = "SELL"
    /\ Len(pre.long) = 2
    /\ t.quantity > TotalQty(pre.long)
    /\ iters = 3
    /\ Len(short_inventory) = 1

\* the zero law alone: a flat position reports avg_cost, unrealized_pl and market
\* value 0 for any current price
FlatZeroLaw ==
    \A cp \in CurrentPrices :
        Position(cp).quantity = 0 =>
            /\ Position(cp).avg_cost = 0
            /\ Position(cp).unrealized_pl = 0
            /\ Position(cp).current_market_value = 0

\* C6: whenever the net quantity is zero, avg_cost, unrealized_pl and market value
\* are 0 for any current price and realized_pl is what the closing trades and the
\* fees accumulated.
C6_FlatZeroLawAndRealized ==
    \A cp \in CurrentPrices :
        Position(cp).quantity = 0 =>
            /\ Position(cp).avg_cost = 0
            /\ Position(cp).unrealized_pl = 0
            /\ Position(cp).current_market_value = 0
            /\ asset_currency = "USD" => Position(cp).realized_pl = ref.gain - ref.fees

\* C7: from flat, BUY q at p1 (fee f1) then SELL q at p2 (fee f2) ends with
\* quantity 0, avg_cost 0 and realized_pl = (p2 - p1) * q - f1 - f2.
C7_LongRoundTrip ==
    (pre.flat0 /\ pre.t.action = "BUY" /\ t.action = "SELL" /\ t.quantity = pre.t.quantity)
    => /\ \A cp \in CurrentPrices :
            /\ Position(cp).quantity = 0
            /\ Position(cp).avg_cost = 0
       /\ realized_pl - pre.realized0 =
            Normalize((t.price - pre.t.price) * t.quantity)
              - Normalize(pre.t.fees) - Normalize(t.fees)

C7_Witness ==
    /\ n = 2
    /\ pre.t.action = "BUY" /\ t.action = "SELL"
    /\ t.quantity = pre.t.quantity
    /\ pre.t.fees = 1 /\ t.fees = 1
    /\ t.price > pre.t.price
    /\ asset_currency = "USD"
    /\ realized_pl = (t.price - pre.t.price) * t.quantity - 2

\* C8: a DIVIDEND adds normalize(price * quantity) to total_dividends and leaves
\* both queues and realized_pl unchanged; realized_pl changes only on BUY or SELL.
C8_DividendFrame ==
    /\ t.action = "DIVIDEND" =>
          /\ total_dividends = pre.dividends + Normalize(t.price * t.quantity)
          /\ inventory = pre.long
          /\ short_inventory = pre.short
          /\ realized_pl = pre.realized
    /\ realized_pl # pre.realized => t.action \in {"BUY", "SELL"}
    /\ total_dividends # pre.dividends => t.action = "DIVIDEND"

C8_Witness ==
    /\ t.action = "DIVIDEND"
    /\ t.fees > 0
    /\ inventory # <<>>
    /\ realized_pl # 0
    /\ total_dividends > pre.dividends

(***************************************************************************)
(* Cash Reconciliation Engine: calculate_current_cash                      *)
(***************************************************************************)
NoAsset == [symbol |-> "NONE", currency |-> ""]

Asset(currency) == [symbol |-> "A", currency |-> currency]

CashFlow(type, amount, currency) == [type |-> type, amount |-> amount, currency |-> currency]

CashTxn(action, p, q, f, currency, asset) ==
    [action |-> action, price |-> p, quantity |-> q, fees |-> f,
     currency |-> currency, asset |-> asset]

CashAmounts == {1000}
CashPrices == {100}
CashQuantities == {5}
CashFees == {5}
\* a currency column may hold the empty string
TxnCurrencies == {"", "USD", "HKD"}
\* txn.asset is nullable
TxnAssets == {NoAsset} \cup {Asset(c) : c \in TxnCurrencies}

\* the cashflow loop's body
CashFlowEffect(cash, cf) ==
    IF cf.type = "DEPOSIT"
    THEN IF cf.currency = "USD" THEN [cash EXCEPT !.USD = cash.USD + cf.amount]
         ELSE IF cf.currency = "HKD" THEN [cash EXCEPT !.HKD = cash.HKD + cf.amount]
         ELSE cash
    ELSE IF cf.type = "WITHDRAW"
    THEN IF cf.currency = "USD" THEN [cash EXCEPT !.USD = cash.USD - cf.amount]
         ELSE IF cf.currency = "HKD" THEN [cash EXCEPT !.HKD = cash.HKD - cf.amount]
         ELSE cash
    ELSE cash

\* `txn.currency or txn.asset.currency or 'USD'`
txn_currency(txn) ==
    IF txn.currency # "" THEN txn.currency
    ELSE IF txn.asset.currency # "" THEN txn.asset.currency
    ELSE "USD"

\* the signed amount of a transaction
TxnCashAmountMut(txn) ==
    IF txn.action = "BUY" THEN -(txn.price * txn.quantity + txn.fees)
    ELSE IF txn.action = "SELL" THEN txn.price * txn.quantity + txn.fees
    ELSE IF txn.action = "DIVIDEND" THEN txn.price * txn.quantity
    ELSE 0

TxnCashAmount(txn) ==
    IF txn.action = "BUY" THEN -(txn.price * txn.quantity + txn.fees)
    ELSE IF txn.action = "SELL" THEN txn.price * txn.quantity - txn.fees
    ELSE IF txn.action = "DIVIDEND" THEN txn.price * txn.quantity
    ELSE 0

\* the transaction loop's body
TransactionEffect(cash, txn) ==
    IF txn.asset = NoAsset THEN cash
    ELSE LET cur == txn_currency(txn)
             amount == TxnCashAmount(txn)
         IN  IF cur = "USD" THEN [cash EXCEPT !.USD = cash.USD + amount]
             ELSE IF cur = "HKD" THEN [cash EXCEPT !.HKD = cash.HKD + amount]
             ELSE cash

RECURSIVE FoldCashFlows(_, _)
FoldCashFlows(cash, rows) ==
    IF rows = <<>> THEN cash ELSE FoldCashFlows(CashFlowEffect(cash, Head(rows)), Tail(rows))

RECURSIVE FoldTransactions(_, _)
FoldTransactions(cash, rows) ==
    IF rows = <<>> THEN cash
    ELSE FoldTransactions(TransactionEffect(cash, Head(rows)), Tail(rows))

calculate_current_cash(cfs, txns, base, rate) ==
    LET c1 == FoldCashFlows([USD |-> 0, HKD |-> 0], cfs)
        c2 == FoldTransactions(c1, txns)
    IN  [USD |-> c2.USD,
         HKD |-> c2.HKD,
         total_in_base |-> IF base = "USD" THEN c2.USD + DecDiv(c2.HKD, rate)
                           ELSE c2.USD * rate + c2.HKD]

\* every caller reconciles in USD
current_cash == calculate_current_cash(cashflows, transactions, "USD", usd_to_hkd_rate)

(***************************************************************************)
(* The event log: rows are committed one at a time                         *)
(***************************************************************************)
RowsLeft == Len(cashflows) + Len(transactions) < MaxRows

CreateCashFlow ==
    /\ RowsLeft
    /\ \E type \in {"DEPOSIT", "WITHDRAW"}, a \in CashAmounts, c \in Currencies :
          cashflows' = Append(cashflows, CashFlow(type, a, c))
    /\ UNCHANGED transactions
    /\ UNCHANGED <<ledgerVars, cacheVars, extVars>>

CreateTransaction ==
    /\ RowsLeft
    /\ \E action \in {"BUY", "SELL", "DIVIDEND"}, p \in CashPrices, q \in CashQuantities,
          f \in CashFees, c \in TxnCurrencies, a \in TxnAssets :
          transactions' = Append(transactions, CashTxn(action, p, q, f, c, a))
    /\ UNCHANGED cashflows
    /\ UNCHANGED <<ledgerVars, cacheVars, extVars>>

CashInit ==
    /\ asset_currency = "USD"
    /\ usd_to_hkd_rate \in Rates
    /\ LedgerStart
    /\ EmptyLog

CashNext == CreateCashFlow \/ CreateTransaction

SpecCash == CashInit /\ [][CashNext]_vars

(***************************************************************************)
(* Properties of the Cash Reconciliation Engine                            *)
(***************************************************************************)
\* sum of f(row) over the rows of a table
SumOver(rows, f(_)) == SumSeq([i \in 1..Len(rows) |-> f(rows[i])])

\* the bucket as claimed: the transaction's own currency, the instrument's when unset
ClaimedBucket(txn) == IF txn.currency # "" THEN txn.currency ELSE txn.asset.currency

ClaimedBalance(cur, bucket(_), counted(_)) ==
    LET dep(cf) == IF cf.type = "DEPOSIT" /\ cf.currency = cur THEN cf.amount ELSE 0
        wd(cf) == IF cf.type = "WITHDRAW" /\ cf.currency = cur THEN cf.amount ELSE 0
        in(x) == counted(x) /\ bucket(x) = cur
        buy(x) == IF x.action = "BUY" /\ in(x) THEN x.price * x.quantity + x.fees ELSE 0
        sell(x) == IF x.action = "SELL" /\ in(x) THEN x.price * x.quantity - x.fees ELSE 0
        div(x) == IF x.action = "DIVIDEND" /\ in(x) THEN x.price * x.quantity ELSE 0
    IN  SumOver(cashflows, dep) - SumOver(cashflows, wd)
          - SumOver(transactions, buy) + SumOver(transactions, sell)
          + SumOver(transactions, div)

EveryTxn(x) == TRUE

HasInstrument(x) == x.asset # NoAsset

RemoveAt(rows, i) == SubSeq(rows, 1, i - 1) \o SubSeq(rows, i + 1, Len(rows))

\* rows the requests of this account write
EventCashFlows == {CashFlow(type, 1000, "USD") : type \in {"DEPOSIT", "WITHDRAW"}}

EventTransactions ==
    {CashTxn(action, 100, 5, 5, "HKD", Asset("HKD")) : action \in {"BUY", "SELL"}}

\* a request commits its change of the event log; the signal then runs the
\* handler inside the same request
Commit(p) ==
    /\ pc[p] = "idle"
    /\ events < MaxEvents
    /\ events' = events + 1
    /\ pc' = [pc EXCEPT ![p] = "calc"]
    /\ fresh' = [q \in Procs |-> FALSE]
    /\ runs' = 0
    /\ UNCHANGED <<balance, lock, cash_data, created, failed>>
    /\ UNCHANGED <<ledgerVars, extVars>>

CashFlowCreated(p) ==
    /\ Commit(p)
    /\ \E row \in EventCashFlows : cashflows' = Append(cashflows, row)
    /\ UNCHANGED transactions

CashFlowUpdated(p) ==
    /\ Commit(p)
    /\ \E i \in 1..Len(cashflows), row \in EventCashFlows :
          /\ row # cashflows[i]
          /\ cashflows' = [cashflows EXCEPT ![i] = row]
    /\ UNCHANGED transactions

CashFlowDeleted(p) ==
    /\ Commit(p)
    /\ \E i \in 1..Len(cashflows) : cashflows' = RemoveAt(cashflows, i)
    /\ UNCHANGED transactions

TransactionCreated(p) ==
    /\ Commit(p)
    /\ \E row \in EventTransactions : transactions' = Append(transactions, row)
    /\ UNCHANGED cashflows

TransactionUpdated(p) ==
    /\ Commit(p)
    /\ \E i \in 1..Len(transactions), row \in EventTransactions :
          /\ row # transactions[i]
          /\ transactions' = [transactions EXCEPT ![i] = row]
    /\ UNCHANGED cashflows

TransactionDeleted(p) ==
    /\ Commit(p)
    /\ \E i \in 1..Len(transactions) : transactions' = RemoveAt(transactions, i)
    /\ UNCHANGED cashflows

\* a row is saved again with the values it holds: post_save runs the handler on an
\* event log that did not change
RowResaved(p) ==
    /\ pc[p] = "idle"
    /\ events < MaxEvents
    /\ Len(cashflows) + Len(transactions) > 0
    /\ events' = events + 1
    /\ pc' = [pc EXCEPT ![p] = "calc"]
    /\ UNCHANGED <<balance, lock, cash_data, created, fresh, runs, failed>>
    /\ UNCHANGED <<ledgerVars, cashVars, extVars>>

\* update_account_balance_cache: `cash_data = calculate_current_cash(user, ...)`,
\* before the database transaction is opened
ComputeCashData(p) ==
    /\ pc[p] = "calc"
    /\ cash_data' = [cash_data EXCEPT ![p] = current_cash]
    /\ pc' = [pc EXCEPT ![p] = "get_or_create"]
    /\ fresh' = [fresh EXCEPT ![p] = TRUE]
    /\ UNCHANGED <<balance, lock, created, events, runs, failed>>
    /\ UNCHANGED <<ledgerVars, cashVars, extVars>>

\* the row built from a cash_data
BalanceRow(cd) ==
    [cash_usd |-> cd.USD, cash_hkd |-> cd.HKD, total_in_base |-> cd.total_in_base,
     exists |-> TRUE]

\* `with atomic(): select_for_update().get_or_create(user=user, defaults=...)`
\* without the row lock
GetOrCreateMut(p) ==
    /\ pc[p] = "get_or_create"
    /\ lock' = p
    /\ IF balance.exists
       THEN /\ created' = [created EXCEPT ![p] = FALSE]
            /\ UNCHANGED balance
       ELSE /\ created' = [created EXCEPT ![p] = TRUE]
            /\ balance' = BalanceRow(cash_data[p])
    /\ pc' = [pc EXCEPT ![p] = "save"]
    /\ UNCHANGED <<cash_data, events, fresh, runs, failed>>
    /\ UNCHANGED <<ledgerVars, cashVars, extVars>>

\* `with atomic(): select_for_update().get_or_create(user=user, defaults=...)`:
\* waits while another transaction holds the row, then locks it, inserting it from
\* the defaults when the account has none
GetOrCreate(p) ==
    /\ pc[p] = "get_or_create"
    /\ lock = 0
    /\ lock' = p
    /\ IF balance.exists
       THEN /\ created' = [created EXCEPT ![p] = FALSE]
            /\ UNCHANGED balance
       ELSE /\ created' = [created EXCEPT ![p] = TRUE]
            /\ balance' = BalanceRow(cash_data[p])
    /\ pc' = [pc EXCEPT ![p] = "save"]
    /\ UNCHANGED <<cash_data, events, fresh, runs, failed>>
    /\ UNCHANGED <<ledgerVars, cashVars, extVars>>

\* the handler returns: its locals are gone
Return(p) ==
    /\ cash_data' = [cash_data EXCEPT ![p] = NoCash]
    /\ created' = [created EXCEPT ![p] = FALSE]
    /\ fresh' = [fresh EXCEPT ![p] = FALSE]

\* the fields assigned to the existing row, patching the base total only
SavedRowMut(row, cd) == [row EXCEPT !.total_in_base = cd.total_in_base]

\* `balance.cash_usd = ...; balance.cash_hkd = ...; balance.total_in_base = ...`:
\* every balance field of the existing row is assigned from cash_data
SavedRow(row, cd) ==
    [row EXCEPT !.cash_usd = cd.USD, !.cash_hkd = cd.HKD,
                !.total_in_base = cd.total_in_base]

\* `if not created: ... balance.save(update_fields=[...])`, then the atomic block
\* commits and the handler returns
SaveBalance(p) ==
    /\ pc[p] = "save"
    /\ lock = p
    /\ balance' = IF created[p] THEN balance ELSE SavedRow(balance, cash_data[p])
    /\ lock' = 0
    /\ pc' = [pc EXCEPT ![p] = "idle"]
    /\ runs' = IF fresh[p] THEN Min(runs + 1, 2) ELSE 0
    /\ failed' = FALSE
    /\ Return(p)
    /\ UNCHANGED events
    /\ UNCHANGED <<ledgerVars, cashVars, extVars>>

\* the write raises and what the database transaction did stays: a row it
\* inserted is kept
WriteFailsMut(p) ==
    /\ pc[p] = "save"
    /\ lock = p
    /\ balance' = balance
    /\ lock' = 0
    /\ pc' = [pc EXCEPT ![p] = "idle"]
    /\ runs' = IF created[p] THEN 0 ELSE runs
    /\ failed' = TRUE
    /\ Return(p)
    /\ UNCHANGED events
    /\ UNCHANGED <<ledgerVars, cashVars, extVars>>

\* the write raises inside the atomic block: the database transaction is rolled
\* back (an inserted row is gone, the lock is released), update_account_balance_cache
\* logs and re-raises, and the signal handler logs the exception and returns
WriteFails(p) ==
    /\ pc[p] = "save"
    /\ lock = p
    /\ balance' = IF created[p] THEN NoBalance ELSE balance
    /\ lock' = 0
    /\ pc' = [pc EXCEPT ![p] = "idle"]
    /\ runs' = IF created[p] THEN 0 ELSE runs
    /\ failed' = TRUE
    /\ Return(p)
    /\ UNCHANGED events
    /\ UNCHANGED <<ledgerVars, cashVars, extVars>>

\* AccountBalanceView.get: the row when the account has one, else a recomputation
AccountBalanceView_get ==
    IF balance.exists
    THEN [USD |-> balance.cash_usd, HKD |-> balance.cash_hkd,
          total_in_base |-> balance.total_in_base]
    ELSE current_cash

CacheNext ==
    \E p \in Procs :
        \/ CashFlowCreated(p)
        \/ CashFlowUpdated(p)
        \/ CashFlowDeleted(p)
        \/ TransactionCreated(p)
        \/ TransactionUpdated(p)
        \/ TransactionDeleted(p)
        \/ RowResaved(p)
        \/ ComputeCashData(p)
        \/ GetOrCreate(p)
        \/ SaveBalance(p)
        \/ WriteFails(p)

SpecCache == CashInit /\ [][CacheNext]_vars

(***************************************************************************)
(* Properties of the balance cache                                         *)
(***************************************************************************)
Quiet == \A p \in Procs : pc[p] = "idle"

\* C10: once every handler has completed (and the last write did not fail), the
\* persisted per-currency balances are the Cash Reconciliation Engine's result on
\* the event log as it stands.
C10_QuietCacheEqualsReplay ==
    (Quiet /\ events > 0 /\ ~failed) =>
        /\ balance.exists
        /\ balance.cash_usd = current_cash.USD
        /\ balance.cash_hkd = current_cash.HKD

\* the requests inside the locked get / assign / save cycle of the row
Writers == {p \in Procs : pc[p] = "save"}

\* C11: for any interleaving of concurrent recomputations of one account, a
\* request is inside the get / assign / save cycle of the account's row exactly
\* while it holds the row's lock, at most one request is inside that cycle at a
\* time, and every change of the persisted row is made by the lock's holder and
\* sets cash_usd, cash_hkd and total_in_base from that holder's one cash_data
\* (or takes back the row the holder inserted, when its write fails).
C11_SerializedWholeWrites ==
    /\ [](/\ \A p \in Procs : (p \in Writers) <=> (lock = p)
          /\ Cardinality(Writers) <= 1)
    /\ [][balance' # balance =>
            \E p \in Procs :
               /\ lock = p \/ lock' = p
               /\ \/ balance' = BalanceRow(cash_data[p])
                  \/ created[p] /\ balance' = NoBalance]_vars

\* one request holds the row it is about to overwrite with a different result,
\* while another request waits for the lock
C11_Witness ==
    \E p, q \in Procs :
        /\ pc[p] = "save" /\ lock = p /\ ~created[p]
        /\ pc[q] = "get_or_create"
        /\ balance.exists
        /\ cash_data[p] # cash_data[q]
        /\ balance.cash_usd # cash_data[p].USD
        /\ balance.cash_hkd # cash_data[p].HKD

\* C12: update_account_balance_cache is idempotent and rebuilds wholesale: after
\* one run, or two or more runs in a row, on an unchanged event log and rate, the
\* persisted cash_usd, cash_hkd and total_in_base are the full replay of the event
\* log, whatever values the row held before.
C12_IdempotentWholesale ==
    runs > 0 => balance = BalanceRow(current_cash)

\* the second run in a row on an unchanged log, over a row that held other values
\* in every field before the first
C12_Witness ==
    /\ runs = 2
    /\ Quiet
    /\ Len(cashflows) > 0 /\ Len(transactions) > 0
    /\ balance.cash_usd # 0 /\ balance.cash_hkd # 0
    /\ balance = BalanceRow(current_cash)

\* C13: after a write of the persisted cache has failed, the balance read path
\* returns the balances of a full recomputation over the current event log.
C13_ReadAfterFailedWrite ==
    (failed /\ Quiet) => AccountBalanceView_get = current_cash

(***************************************************************************)
(* Ingestion: AddTransactionView / TransactionSerializer and the two CSV   *)
(* formats of CSVImportView. A submitted field is text: blank, a number,   *)
(* or text that is no number.                                              *)
(***************************************************************************)
ACTION_CHOICES == {"BUY", "SELL", "DIVIDEND"}

Blank == [kind |-> "blank", v |-> 0]

Garbled == [kind |-> "text", v |-> 0]

Num(v) == [kind |-> "number", v |-> v]

SubmittedQuantities == {Blank, Garbled, Num(-5), Num(5)}
SubmittedPrices == {Blank, Num(100)}
SubmittedActions == {"", "BUY", "HOLD", "sell"}
SubmittedSymbols == {"", "AAPL"}
SubmittedTickers == {"", "700"}

\* `float(x or 0)`, `Decimal(x or 0)`: a blank field counts as 0
NumberOr0(f) == IF f.kind = "blank" THEN 0 ELSE f.v

\* float() and Decimal() raise on text that is no number
Unparsable(f) == f.kind = "text"

\* `.strip().upper()` of the action column
Upper(a) == IF a = "sell" THEN "SELL" ELSE a

\* CSVImportView._normalize_symbol and the currency read off the symbol
TickerCurrency(ticker) == IF ticker = "700" THEN "HKD" ELSE "USD"

\* post_save: the cache is rebuilt after a row was stored (one request at a time)
BalanceAfterStore(txns) ==
    IF txns = transactions THEN balance
    ELSE BalanceRow(calculate_current_cash(cashflows, txns, "USD", usd_to_hkd_rate))

\* a request has handled one row: `rows` were stored, `error` was reported
Handled(path, row, rows, error) ==
    /\ imports < MaxImports
    /\ imports' = imports + 1
    /\ request' = [path |-> path, row |-> row]
    /\ outcome' = [stored |-> Len(rows), error |-> error]
    /\ transactions' = transactions \o rows
    /\ balance' = BalanceAfterStore(transactions \o rows)
    /\ UNCHANGED <<lock, pc, cash_data, created, events, fresh, runs, failed>>
    /\ UNCHANGED <<ledgerVars, cashflows, rateVars, tableVars>>

\* ModelSerializer validation: the symbol validates, the action is one of the
\* choices, the quantity is a decimal number; nothing bounds the quantity below
SerializerValid(row) ==
    /\ row.symbol # ""
    /\ row.action \in ACTION_CHOICES
    /\ row.quantity.kind = "number"

\* AddTransactionView.post: is_valid, then TransactionSerializer.create
AddTransaction ==
    \E symbol \in SubmittedSymbols, action \in SubmittedActions, q \in SubmittedQuantities :
        LET row == [symbol |-> symbol, action |-> action, quantity |-> q]
        IN  IF SerializerValid(row)
            THEN Handled("add-transaction", row,
                         <<CashTxn(action, 100, q.v, 5, "USD", Asset("USD"))>>, FALSE)
            ELSE Handled("add-transaction", row, <<>>, TRUE)

\* CSVImportView.post, one row of the format Ticker / quantity / buy price / sell price
ImportTickerRow ==
    \E ticker \in SubmittedTickers, q \in SubmittedQuantities,
       bp \in SubmittedPrices, sp \in SubmittedPrices :
        LET row == [symbol |-> ticker, quantity |-> q, buy_price |-> bp, sell_price |-> sp]
            asset == Asset(TickerCurrency(ticker))
            quantity == NumberOr0(q)
            buy == IF NumberOr0(bp) > 0
                   THEN <<CashTxn("BUY", NumberOr0(bp), quantity, 0, "USD", asset)>>
                   ELSE <<>>
            sell == IF NumberOr0(sp) > 0
                    THEN <<CashTxn("SELL", NumberOr0(sp), quantity, 0, "USD", asset)>>
                    ELSE <<>>
        IN  IF ticker = "" THEN Handled("import-csv ticker", row, <<>>, FALSE)
            ELSE IF Unparsable(q) \/ Unparsable(bp) \/ Unparsable(sp)
            THEN Handled("import-csv ticker", row, <<>>, TRUE)
            ELSE Handled("import-csv ticker", row, buy \o sell, FALSE)

\* the action stored for a row of the symbol / action / date / price / quantity format
LegacyAction(a) ==
    LET action == Upper(IF a = "" THEN "BUY" ELSE a)
    IN  IF action \notin ACTION_CHOICES THEN "BUY" ELSE action

\* CSVImportView.post, one row of the format symbol / action / date / price / quantity / fees
ImportLegacyRow ==
    \E symbol \in SubmittedSymbols, action \in SubmittedActions, q \in SubmittedQuantities :
        LET row == [symbol |-> symbol, action |-> action, quantity |-> q]
        IN  IF symbol = "" THEN Handled("import-csv legacy", row, <<>>, FALSE)
            ELSE IF Unparsable(q) THEN Handled("import-csv legacy", row, <<>>, TRUE)
            ELSE Handled("import-csv legacy", row,
                         <<CashTxn(LegacyAction(action), 100, NumberOr0(q), 0, "USD",
                                   Asset("USD"))>>, FALSE)

IngestNext == AddTransaction \/ ImportTickerRow \/ ImportLegacyRow

SpecIngest == CashInit /\ [][IngestNext]_vars

(***************************************************************************)
(* Properties of ingestion                                                 *)
(***************************************************************************)
NonPositive(f) == f.kind # "number" \/ f.v <= 0

\* the rows stored for the row submitted last
StoredNow == SubSeq(transactions, Len(transactions) - outcome.stored + 1, Len(transactions))

\* C14: no path stores a transaction with a non-positive quantity or replaces an
\* unknown action by a valid one: such a row is rejected with an error and nothing
\* is stored for it, so the event log only holds quantity > 0 and an action of
\* {BUY, SELL, DIVIDEND} as submitted.
C14_IngestionRejectsBadRows ==
    /\ \A i \in 1..Len(transactions) :
          /\ transactions[i].quantity > 0
          /\ transactions[i].action \in ACTION_CHOICES
    /\ (request # NoRequest /\ request.row.symbol # "") =>
          /\ NonPositive(request.row.quantity) => (outcome.stored = 0 /\ outcome.error)
          /\ request.path # "import-csv ticker" =>
                /\ Upper(request.row.action) \notin ACTION_CHOICES =>
                      (outcome.stored = 0 /\ outcome.error)
                /\ \A i \in 1..Len(StoredNow) :
                      StoredNow[i].action = Upper(request.row.action)

(***************************************************************************)
(* Rate provider: get_usd_to_hkd_rate and its module-level cache.          *)
(* Rates count tenths of HKD per USD; time counts seconds.                 *)
(***************************************************************************)
cache_duration == 6400

\* Decimal('7.8')
fallback_rate == 78

\* time passing between two statements
TimeSteps == {3200, 6400}

\* what the upstream provider answers: ticker.info, or an exception
Upstream ==
    {[raises |-> TRUE, regularMarketPrice |-> 0, currentPrice |-> 0]} \cup
    {[raises |-> FALSE, regularMarketPrice |-> a, currentPrice |-> b] : a \in {0, 77}, b \in {0, 79}}

\* the cache check at the head of get_usd_to_hkd_rate
CacheValid(cache, now) ==
    /\ cache.rate # NoRate
    /\ cache.timestamp # NoTime
    /\ now - cache.timestamp < cache_duration

\* `info.get('regularMarketPrice') or info.get('currentPrice')`
FetchedRate(info) ==
    IF info.regularMarketPrice # 0 THEN info.regularMarketPrice ELSE info.currentPrice

\* `if rate:` taken for any value
UsableMut(rate) == TRUE

\* `if rate:`
Usable(rate) == rate # 0

\* the cache update keeping the old timestamp
StoreMut(cache, rate, now) == [cache EXCEPT !.rate = rate]

\* `_exchange_rate_cache['rate'] = ...; _exchange_rate_cache['timestamp'] = current_time`
Store(cache, rate, now) == [rate |-> rate, timestamp |-> now]

\* get_usd_to_hkd_rate: the rate returned, the cache it leaves, whether the
\* upstream provider was contacted, whether a rate was stored
get_usd_to_hkd_rate(cache, now, info) ==
    IF CacheValid(cache, now)
    THEN [rate |-> cache.rate, cache |-> cache, contacted |-> FALSE, stored |-> FALSE]
    ELSE IF ~info.raises /\ Usable(FetchedRate(info))
    THEN [rate |-> FetchedRate(info), cache |-> Store(cache, FetchedRate(info), now),
          contacted |-> TRUE, stored |-> TRUE]
    ELSE IF info.raises /\ cache.rate # NoRate
    THEN [rate |-> cache.rate, cache |-> cache, contacted |-> TRUE, stored |-> FALSE]
    ELSE [rate |-> fallback_rate, cache |-> Store(cache, fallback_rate, now),
          contacted |-> TRUE, stored |-> TRUE]

\* one call, with the upstream answer `info`
Called(info) ==
    LET res == get_usd_to_hkd_rate(exchange_rate_cache, current_time, info)
    IN  /\ calls < MaxCalls
        /\ calls' = calls + 1
        /\ exchange_rate_cache' = res.cache
        /\ call' = [at |-> current_time, info |-> info, rate |-> res.rate,
                    contacted |-> res.contacted, good |-> good, stored |-> stored]
        /\ good' = IF res.contacted /\ res.stored /\ ~info.raises /\ Usable(FetchedRate(info))
                   THEN res.rate ELSE good
        /\ stored' = IF res.stored THEN [rate |-> res.rate, at |-> current_time] ELSE stored
        /\ UNCHANGED current_time
        /\ UNCHANGED <<ledgerVars, cashVars, cacheVars, ingestVars, tableVars>>

\* the rate the call made in this step returns
Returned == call'.rate

\* time passes
Advance ==
    /\ \E d \in TimeSteps :
          /\ current_time + d <= MaxTicks * cache_duration
          /\ current_time' = current_time + d
    /\ UNCHANGED <<exchange_rate_cache, call, good, stored, dash_pc, pass_rates, calls>>
    /\ UNCHANGED <<ledgerVars, cashVars, cacheVars, ingestVars, tableVars>>

\* a computation that asks for the rate once (a position snapshot, a cash
\* reconciliation, a monthly aggregation, a serializer's create)
SingleCall ==
    /\ \E info \in Upstream : Called(info)
    /\ UNCHANGED <<dash_pc, pass_rates>>

\* PortfolioDashboardView.get: `usd_to_hkd_rate = get_usd_to_hkd_rate()`, used for
\* every position and for total_equity_hks
DashboardPositions ==
    /\ dash_pc = "idle"
    /\ \E info \in Upstream : Called(info)
    /\ pass_rates' = <<Returned>>
    /\ dash_pc' = "cash"

\* PortfolioDashboardView.get: calculate_current_cash asks for the rate itself
DashboardCash ==
    /\ dash_pc = "cash"
    /\ \E info \in Upstream : Called(info)
    /\ pass_rates' = Append(pass_rates, Returned)
    /\ dash_pc' = "invested"

\* PortfolioDashboardView.get: get_total_invested_capital asks for the rate itself;
\* the summary is then added up and returned
DashboardInvested ==
    /\ dash_pc = "invested"
    /\ \E info \in Upstream : Called(info)
    /\ pass_rates' = Append(pass_rates, Returned)
    /\ dash_pc' = "idle"

RateNext ==
    \/ Advance
    \/ SingleCall
    \/ DashboardPositions
    \/ DashboardCash
    \/ DashboardInvested

SpecRate == CashInit /\ [][RateNext]_vars

(***************************************************************************)
(* Properties of the rate provider and of the passes that use it           *)
(***************************************************************************)
\* the upstream fetch of the last call raised or returned no usable price
UpstreamFailed == call.info.raises \/ ~Usable(FetchedRate(call.info))

\* C15: every conversion performed while computing one result uses one and the
\* same rate value, including when the rate cache expires or is refreshed while
\* the computation is running; here for one dashboard summary, which adds the
\* positions' market value, the cash and the invested capital.
C15_OneRatePerPass ==
    \A i, j \in 1..Len(pass_rates) : pass_rates[i] = pass_rates[j]

\* C16: once a rate has been fetched successfully, every later call made during
\* an upstream failure returns that last-known-good rate, and the last-known-good
\* rate held in the cache is never replaced by the fallback constant.
C16_LastKnownGood ==
    /\ (call # NoCall /\ call.contacted /\ UpstreamFailed /\ call.good # NoRate) =>
          call.rate = call.good
    /\ good # NoRate => exchange_rate_cache.rate = good

\* C17: get_usd_to_hkd_rate returns a non-zero rate on every call, whether the
\* upstream fetch succeeds, raises or returns no price and whether or not a cached
\* value exists, and the cache never holds a zero rate after a call.
C17_RateNeverZero ==
    call # NoCall =>
        /\ call.rate # 0
        /\ exchange_rate_cache.rate # 0

\* failed fetches with and without a cached value: the call returned the fallback
\* on an empty cache, or an expired cached rate
C17_Witness ==
    /\ call # NoCall
    /\ call.contacted
    /\ UpstreamFailed
    /\ \/ call.stored.rate = NoRate /\ call.rate = fallback_rate
       \/ call.stored.rate # NoRate /\ call.info.raises /\ call.rate = call.stored.rate

C18_ExpiredWitness ==
    /\ call # NoCall
    /\ call.stored.at # NoTime
    /\ call.at - call.stored.at = cache_duration
    /\ call.contacted
    /\ call.rate # call.stored.rate

(***************************************************************************)
(* Monthly Aggregator: calculate_monthly_tracking(user, year).             *)
(* Dates are day numbers counted from Jan 1 of `year`; the account's rows  *)
(* are kept in the order they were created.                                *)
(***************************************************************************)
\* Jan 1 and Dec 31 of `year`
start_date == 0
end_date == 364

\* Dec 15 of the year before, Jan 1 and Feb 10 of `year`
Dates == {-17, 0, 40}

\* date.month, for the dates of the year before, January, February and later
MonthOf(d) == IF d < 0 THEN 12 ELSE IF d < 31 THEN 1 ELSE IF d < 59 THEN 2 ELSE 3

Months == 1..12

\* the Asset rows of the account's instruments
Instruments ==
    {[symbol |-> "A", currency |-> "USD", current_price |-> 20],
     [symbol |-> "B", currency |-> "HKD", current_price |-> 20]}

\* price, quantity and fee of the transactions entered
Terms ==
    {[price |-> 10, quantity |-> 5, fees |-> 0], [price |-> 30, quantity |-> 2, fees |-> 1]}

DatedTxn(action, terms, asset, date) ==
    [action |-> action, price |-> terms.price, quantity |-> terms.quantity,
     fees |-> terms.fees, currency |-> asset.currency, asset |-> asset, date |-> date]

DatedCashFlow(type, amount, currency, date) ==
    [type |-> type, amount |-> amount, currency |-> currency, date |-> date]

\* `date__lt=start_date` taken as date <= start_date
BeforeStartMut(row) == row.date <= start_date

\* `date__lt=start_date`
BeforeStart(row) == row.date < start_date

\* `date__gte=start_date, date__lte=end_date`
InYear(row) == row.date >= start_date /\ row.date <= end_date

\* the rows of one instrument, as `order_by('date', 'created_at')` returns them:
\* rows are entered with non-decreasing dates, so creation order is that order
OfAsset(rows, symbol) == SelectSeq(rows, LAMBDA row : row.asset.symbol = symbol)

\* starting capital, cash part: the cashflow loop's body
StartCashFlowEffect(cash, cf) ==
    IF cf.currency = "USD"
    THEN IF cf.type = "DEPOSIT" THEN [cash EXCEPT !.USD = cash.USD + cf.amount]
         ELSE [cash EXCEPT !.USD = cash.USD - cf.amount]
    ELSE IF cf.currency = "HKD"
    THEN IF cf.type = "DEPOSIT" THEN [cash EXCEPT !.HKD = cash.HKD + cf.amount]
         ELSE [cash EXCEPT !.HKD = cash.HKD - cf.amount]
    ELSE cash

RECURSIVE FoldStartCashFlows(_, _)
FoldStartCashFlows(cash, rows) ==
    IF rows = <<>> THEN cash
    ELSE FoldStartCashFlows(StartCashFlowEffect(cash, Head(rows)), Tail(rows))

\* cash_before_start
cash_before_start(cfs, txns, rate) ==
    LET c1 == FoldStartCashFlows([USD |-> 0, HKD |-> 0], SelectSeq(cfs, BeforeStart))
        c2 == FoldTransactions(c1, SelectSeq(txns, BeforeStart))
    IN  c2.USD + DecDiv(c2.HKD, rate)

NoTrades == [m \in Months |-> <<>>]

Trade(profit, profit_percent, holding_days, fees) ==
    [profit |-> profit, profit_percent |-> profit_percent,
     holding_days |-> holding_days, fees |-> fees]

\* `(gain_usd / cost_basis_usd * Decimal('100.00')) if cost_basis_usd > 0 else 0`
ProfitPercent(gain_usd, cost_basis_usd) ==
    IF cost_basis_usd > 0 THEN DecDiv(gain_usd * 100, cost_basis_usd) ELSE 0

\* monthly_trades[month].append(trade), the append left out
RecordMut(trades, month, trade) == trades

\* monthly_trades[month].append(trade)
Record(trades, month, trade) == [trades EXCEPT ![month] = Append(@, trade)]

\* the BUY branch's loop closing short lots; s carries inventory, short_inventory,
\* monthly_trades and qty_to_buy. The event is appended without a
\* 'profit_percent' key, which every reader takes as 0
RECURSIVE MonthlyBuyLoop(_, _, _, _)
MonthlyBuyLoop(s, txn, cur, rate) ==
    IF ~(s.qty > 0 /\ s.short # <<>>) THEN s
    ELSE LET batch == Head(s.short)
             closed == IF batch.quantity > s.qty THEN s.qty ELSE batch.quantity
             gain_usd == convert_to_usd((batch.price - txn.price) * closed, cur, rate)
             trade == Trade(gain_usd, 0, txn.date - batch.date,
                            convert_to_usd(txn.fees, cur, rate))
         IN  MonthlyBuyLoop(
                [s EXCEPT !.short = IF batch.quantity > s.qty
                                    THEN <<[batch EXCEPT !.quantity = @ - s.qty]>> \o Tail(s.short)
                                    ELSE Tail(s.short),
                          !.trades = Record(s.trades, MonthOf(txn.date), trade),
                          !.qty = s.qty - closed],
                txn, cur, rate)

\* the SELL branch's loop closing long lots, or opening a short lot
RECURSIVE MonthlySellLoop(_, _, _, _)
MonthlySellLoop(s, txn, cur, rate) ==
    IF ~(s.qty > 0) THEN s
    ELSE IF s.long = <<>>
    THEN [s EXCEPT !.short = Append(s.short, Lot(txn.price, s.qty, txn.date)),
                   !.trades = Record(s.trades, MonthOf(txn.date),
                                     Trade(convert_to_usd(s.qty * txn.price, cur, rate), 0, 0, 0)),
                   !.qty = 0]
    ELSE LET batch == Head(s.long)
             sold == IF batch.quantity > s.qty THEN s.qty ELSE batch.quantity
             gain_usd == convert_to_usd((txn.price - batch.price) * sold, cur, rate)
             cost_basis_usd == convert_to_usd(batch.price * sold, cur, rate)
             trade == Trade(gain_usd, ProfitPercent(gain_usd, cost_basis_usd),
                            txn.date - batch.date, 0)
         IN  MonthlySellLoop(
                [s EXCEPT !.long = IF batch.quantity > s.qty
                                   THEN <<[batch EXCEPT !.quantity = @ - s.qty]>> \o Tail(s.long)
                                   ELSE Tail(s.long),
                          !.trades = Record(s.trades, MonthOf(txn.date), trade),
                          !.qty = s.qty - sold],
                txn, cur, rate)

\* `if fees_usd > 0 and monthly_trades[t.date.month]:
\*      monthly_trades[t.date.month][-1]['profit'] -= fees_usd`
DeductFees(trades, txn, cur, rate) ==
    LET fees_usd == convert_to_usd(txn.fees, cur, rate)
        month == MonthOf(txn.date)
        last == Len(trades[month])
    IN  IF fees_usd > 0 /\ last > 0
        THEN [trades EXCEPT ![month][last].profit = @ - fees_usd]
        ELSE trades

\* one transaction of the replay of one instrument
MonthlyStep(s, txn, cur, rate) ==
    IF txn.action = "BUY"
    THEN LET r == MonthlyBuyLoop([s EXCEPT !.qty = txn.quantity], txn, cur, rate)
         IN  [r EXCEPT !.long = IF r.qty > 0 THEN Append(r.long, Lot(txn.price, r.qty, txn.date))
                                ELSE r.long,
                       !.trades = DeductFees(r.trades, txn, cur, rate)]
    ELSE IF txn.action = "SELL"
    THEN LET r == MonthlySellLoop([s EXCEPT !.qty = txn.quantity], txn, cur, rate)
         IN  [r EXCEPT !.trades = DeductFees(r.trades, txn, cur, rate)]
    ELSE s

\* the replay of one instrument's rows, lots starting empty
RECURSIVE MonthlyReplay(_, _, _, _)
MonthlyReplay(s, rows, cur, rate) ==
    IF rows = <<>> THEN s
    ELSE MonthlyReplay(MonthlyStep(s, Head(rows), cur, rate), Tail(rows), cur, rate)

ReplayStart(trades) == [long |-> <<>>, short |-> <<>>, trades |-> trades, qty |-> 0]

\* starting capital, position part: the market value of one instrument's net
\* quantity held before the year, at the current price
market_value_usd(asset, txns, rate) ==
    LET r == MonthlyReplay(ReplayStart(NoTrades),
                           OfAsset(SelectSeq(txns, BeforeStart), asset.symbol),
                           asset.currency, rate)
        long_quantity == SumSeq([i \in 1..Len(r.long) |-> r.long[i].quantity])
        short_quantity == SumSeq([i \in 1..Len(r.short) |-> r.short[i].quantity])
        net_quantity == long_quantity - short_quantity
        price == IF asset.current_price > 0 THEN asset.current_price ELSE 0
    IN  IF net_quantity # 0
        THEN convert_to_usd(net_quantity * price, asset.currency, rate)
        ELSE 0

\* the instruments the account has transactions of
AssetsOf(txns) == {txns[i].asset : i \in 1..Len(txns)}

\* the rows of a query result, in some order
RECURSIVE SeqOf(_)
SeqOf(S) ==
    IF S = {} THEN <<>>
    ELSE LET x == CHOOSE y \in S : TRUE IN <<x>> \o SeqOf(S \ {x})

starting_capital(cfs, txns, rate) ==
    LET all_user_assets == SeqOf(AssetsOf(txns))
        portfolio_value_before_start ==
            SumSeq([i \in 1..Len(all_user_assets) |->
                        market_value_usd(all_user_assets[i], txns, rate)])
    IN  cash_before_start(cfs, txns, rate) + portfolio_value_before_start

\* timezone.now().date(): Feb 20 of `year`
current_date == 50

\* the first loop over `assets`: each instrument's transactions of the year are
\* replayed from empty lots; a carries monthly_trades and asset_inventories
RECURSIVE ReplayAssets(_, _, _, _)
ReplayAssets(a, assets, txns, rate) ==
    IF assets = <<>> THEN a
    ELSE LET asset == Head(assets)
             r == MonthlyReplay(ReplayStart(a.trades),
                                OfAsset(SelectSeq(txns, InYear), asset.symbol),
                                asset.currency, rate)
         IN  ReplayAssets([trades |-> r.trades,
                           inventories |-> Append(a.inventories,
                                                  [long |-> r.long, short |-> r.short])],
                          Tail(assets), txns, rate)

\* `asset.current_price or Decimal('0.00')` is asset.current_price: the column is
\* not nullable and defaults to 0.
\* the unrealized profit of the open lots of one side of one instrument, recorded
\* in the month the lot was opened; u carries monthly_trades and
\* total_unrealized_profit
RECURSIVE UnrealizedLots(_, _, _, _, _)
UnrealizedLots(u, lots, sign, asset, rate) ==
    IF lots = <<>> THEN u
    ELSE LET batch == Head(lots)
             unrealized_profit_usd ==
                 convert_to_usd(sign * (asset.current_price - batch.price) * batch.quantity,
                                asset.currency, rate)
             cost_basis_usd == convert_to_usd(batch.price * batch.quantity, asset.currency, rate)
             trade == Trade(unrealized_profit_usd,
                            ProfitPercent(unrealized_profit_usd, cost_basis_usd),
                            current_date - batch.date, 0)
         IN  UnrealizedLots([trades |-> Record(u.trades, MonthOf(batch.date), trade),
                             total |-> u.total + unrealized_profit_usd],
                            Tail(lots), sign, asset, rate)

\* the second loop over `assets`, the `if short_inventory:` block left out
RECURSIVE UnrealizedAssetsMut(_, _, _, _)
UnrealizedAssetsMut(u, assets, inventories, rate) ==
    IF assets = <<>> THEN u
    ELSE UnrealizedAssetsMut(UnrealizedLots(u, Head(inventories).long, 1, Head(assets), rate),
                             Tail(assets), Tail(inventories), rate)

\* the second loop over `assets`
RECURSIVE UnrealizedAssets(_, _, _, _)
UnrealizedAssets(u, assets, inventories, rate) ==
    IF assets = <<>> THEN u
    ELSE LET inv == Head(inventories)
             u1 == UnrealizedLots(u, inv.long, 1, Head(assets), rate)
             u2 == UnrealizedLots(u1, inv.short, -1, Head(assets), rate)
         IN  UnrealizedAssets(u2, Tail(assets), Tail(inventories), rate)

RECURSIVE MaxOf(_)
MaxOf(s) ==
    IF Len(s) = 1 THEN Head(s)
    ELSE LET m == MaxOf(Tail(s)) IN IF Head(s) > m THEN Head(s) ELSE m

RECURSIVE MinOf(_)
MinOf(s) ==
    IF Len(s) = 1 THEN Head(s)
    ELSE LET m == MinOf(Tail(s)) IN IF Head(s) < m THEN Head(s) ELSE m

Profits(trades) == [i \in 1..Len(trades) |-> trades[i].profit]

\* `t.get('profit_percent', Decimal('0.00'))`: an event recorded without the key
\* is kept with profit_percent 0
Percents(trades) == [i \in 1..Len(trades) |-> trades[i].profit_percent]

\* None
NoAverage == -1

\* `sum(days) / len(days) if days else None` with 0 for None
AvgHoldingDaysMut(trades) ==
    LET days == SelectSeq([i \in 1..Len(trades) |-> trades[i].holding_days],
                          LAMBDA d : d > 0)
    IN  IF days # <<>> THEN DecDiv(SumSeq(days), Len(days)) ELSE 0

\* `sum(days) / len(days) if days else None`, over the events with holding_days > 0
AvgHoldingDays(trades) ==
    LET days == SelectSeq([i \in 1..Len(trades) |-> trades[i].holding_days],
                          LAMBDA d : d > 0)
    IN  IF days # <<>> THEN DecDiv(SumSeq(days), Len(days)) ELSE NoAverage

\* `next(...)` taken as the first trade of the month
FirstWithProfitMut(trades, p) == trades[1]

\* `next((t for t in trades if t['profit'] == p), None)`
FirstWithProfit(trades, p) ==
    trades[CHOOSE i \in 1..Len(trades) :
              /\ trades[i].profit = p
              /\ \A j \in 1..(i - 1) : trades[j].profit # p]

\* `t['profit'] > 0`
Winning(trade) == trade.profit > 0

\* `t['profit'] <= 0` taken as t['profit'] < 0
LosingMut(trade) == trade.profit < 0

\* `t['profit'] <= 0`
Losing(trade) == trade.profit <= 0

\* one entry of months_data
MonthStats(trades) ==
    IF trades = <<>>
    THEN [total_trades |-> 0, win_rate |-> 0, avg_profit |-> 0, avg_loss |-> 0,
          avg_profit_percent |-> 0, avg_loss_percent |-> 0,
          max_profit |-> 0, max_profit_percent |-> 0, max_loss |-> 0,
          max_loss_percent |-> 0,
          avg_holding_days_success |-> NoAverage, avg_holding_days_fail |-> NoAverage,
          profit |-> 0]
    ELSE LET profitable_trades == SelectSeq(trades, Winning)
             losing_trades == SelectSeq(trades, Losing)
             losing_profits == SelectSeq(Profits(trades), LAMBDA x : x < 0)
             max_profit == MaxOf(Profits(trades))
             max_loss == IF losing_profits # <<>> THEN MinOf(losing_profits) ELSE 0
         IN  [total_trades |-> Len(trades),
              win_rate |-> DecDiv(Len(profitable_trades) * 100, Len(trades)),
              avg_profit |-> IF profitable_trades # <<>>
                             THEN DecDiv(SumSeq(Profits(profitable_trades)),
                                         Len(profitable_trades))
                             ELSE 0,
              avg_loss |-> IF losing_trades # <<>>
                           THEN DecDiv(SumSeq(Profits(losing_trades)), Len(losing_trades))
                           ELSE 0,
              avg_profit_percent |-> IF profitable_trades # <<>>
                                     THEN DecDiv(SumSeq(Percents(profitable_trades)),
                                                 Len(profitable_trades))
                                     ELSE 0,
              avg_loss_percent |-> IF losing_trades # <<>>
                                   THEN DecDiv(SumSeq(Percents(losing_trades)),
                                               Len(losing_trades))
                                   ELSE 0,
              avg_holding_days_success |-> AvgHoldingDays(profitable_trades),
              avg_holding_days_fail |-> AvgHoldingDays(losing_trades),
              max_profit |-> max_profit,
              max_profit_percent |-> FirstWithProfit(trades, max_profit).profit_percent,
              max_loss |-> max_loss,
              max_loss_percent |-> IF max_loss < 0
                                   THEN FirstWithProfit(trades, max_loss).profit_percent
                                   ELSE 0,
              profit |-> SumSeq(Profits(trades))]

\* `(amount / starting_capital) * Decimal('100.00')` without the factor 100
PercentOfCapitalMut(amount, capital) ==
    IF capital > 0 THEN DecDiv(amount, capital) ELSE 0

\* total_profit_percent and total_unrealized_profit_percent:
\* `(amount / starting_capital) * Decimal('100.00')` if starting_capital > 0, else 0
PercentOfCapital(amount, capital) ==
    IF capital > 0 THEN DecDiv(amount * 100, capital) ELSE 0

\* calculate_monthly_tracking when the store returns the instruments traded in
\* the year in the order `assets`
calculate_monthly_tracking(assets, cfs, txns, rate) ==
    LET a == ReplayAssets([trades |-> NoTrades, inventories |-> <<>>], assets, txns, rate)
        u == UnrealizedAssets([trades |-> a.trades, total |-> 0], assets, a.inventories, rate)
        months == [m \in Months |-> MonthStats(u.trades[m])]
        total_profit == SumSeq([m \in Months |-> months[m].profit])
        capital == starting_capital(cfs, txns, rate)
    IN  [months |-> months,
         summary |-> [starting_capital |-> capital,
                      total_profit |-> total_profit,
                      total_profit_percent |-> PercentOfCapital(total_profit, capital),
                      unrealized_profit |-> u.total,
                      unrealized_profit_percent |-> PercentOfCapital(u.total, capital)]]

\* the orders in which the store may return a set of rows
Orders(S) ==
    {o \in [1..Cardinality(S) -> S] : \A i, j \in 1..Cardinality(S) : o[i] = o[j] => i = j}

\* the instruments with a transaction in the year
YearAssets == AssetsOf(SelectSeq(transactions, InYear))

\* the cashflows the account starts with: deposits and a withdrawal before the
\* year, small enough for short positions held over the turn of the year to
\* outweigh them, and a deposit and a withdrawal on Jan 1
CashLogs ==
    {<<DatedCashFlow("DEPOSIT", 30, "USD", -17), DatedCashFlow("WITHDRAW", 80, "HKD", -17),
       DatedCashFlow("DEPOSIT", 400, "HKD", -17), DatedCashFlow("DEPOSIT", 500, "HKD", 0),
       DatedCashFlow("WITHDRAW", 300, "USD", 0)>>}

\* a transaction is entered, dated like the last one or later
EnterTransaction ==
    /\ Len(transactions) < MaxLog
    /\ \E action \in {"BUY", "SELL"}, terms \in Terms, asset \in Instruments, d \in Dates :
          /\ transactions # <<>> => d >= transactions[Len(transactions)].date
          /\ transactions' = Append(transactions, DatedTxn(action, terms, asset, d))
    /\ balance' = BalanceAfterStore(transactions')
    /\ UNCHANGED <<lock, pc, cash_data, created, events, fresh, runs, failed>>
    /\ UNCHANGED <<ledgerVars, cashflows, extVars>>

MonthlyInit ==
    /\ asset_currency = "USD"
    /\ usd_to_hkd_rate \in Rates
    /\ LedgerStart
    /\ Idle
    /\ cashflows \in CashLogs
    /\ transactions = <<>>
    /\ balance = BalanceRow(current_cash)

MonthlyNext == EnterTransaction

SpecMonthly == MonthlyInit /\ [][MonthlyNext]_vars

(***************************************************************************)
(* Properties of the Monthly Aggregator                                    *)
(***************************************************************************)
MonthlyTracking(assets) ==
    calculate_monthly_tracking(assets, cashflows, transactions, usd_to_hkd_rate)

\* C19: two runs for the same account and year over the same events, prices,
\* rate and current date return identical output, whatever order the store
\* returns the account's instruments in.
C19_OutputIndependentOfAssetOrder ==
    \A o1, o2 \in Orders(YearAssets) : MonthlyTracking(o1) = MonthlyTracking(o2)

\* dated strictly before Jan 1 of the year
StrictlyBefore(row) == row.date < 0

\* buys minus sells of one instrument among the rows
NetQuantity(rows, symbol) ==
    LET signed(x) == IF x.asset.symbol # symbol THEN 0
                     ELSE IF x.action = "BUY" THEN x.quantity
                     ELSE IF x.action = "SELL" THEN -x.quantity
                     ELSE 0
    IN  SumOver(rows, signed)

\* starting capital as claimed, from the events strictly before Jan 1
ClaimedStartingCapital ==
    LET cfs == SelectSeq(cashflows, StrictlyBefore)
        txns == SelectSeq(transactions, StrictlyBefore)
        held == SeqOf(Instruments)
        value(asset) == convert_to_usd(NetQuantity(txns, asset.symbol) * asset.current_price,
                                       asset.currency, usd_to_hkd_rate)
    IN  calculate_current_cash(cfs, txns, "USD", usd_to_hkd_rate).total_in_base
          + SumOver(held, value)

\* C20: starting_capital equals the base-currency cash balance reconciled from
\* the cashflows and transactions dated strictly before Jan 1 of the year, plus
\* the sum over instruments of the net quantity replayed from the transactions
\* dated strictly before Jan 1 times the current price, each normalized; events
\* dated on or after Jan 1 do not change it.
C20_StartingCapital ==
    /\ starting_capital(cashflows, transactions, usd_to_hkd_rate) = ClaimedStartingCapital
    /\ starting_capital(cashflows, transactions, usd_to_hkd_rate)
         = starting_capital(SelectSeq(cashflows, StrictlyBefore),
                            SelectSeq(transactions, StrictlyBefore), usd_to_hkd_rate)

\* a position in the HKD instrument held over the boundary, a transaction of it
\* on Jan 1 and a cashflow on Jan 1
C20_Witness ==
    /\ \E i \in 1..Len(cashflows) : cashflows[i].date = 0
    /\ \E i, j \in 1..Len(transactions) :
          /\ transactions[i].date < 0 /\ transactions[i].asset.symbol = "B"
          /\ transactions[j].date = 0 /\ transactions[j].asset.symbol = "B"
    /\ NetQuantity(SelectSeq(transactions, StrictlyBefore), "B") < 0
    /\ NetQuantity(transactions, "B") > 0
    /\ starting_capital(cashflows, transactions, usd_to_hkd_rate)
         # cash_before_start(cashflows, transactions, usd_to_hkd_rate)

\* the transactions of the year of one instrument, in replay order
YearRows(symbol) == OfAsset(SelectSeq(transactions, InYear), symbol)

\* the in-year replay of one instrument before and after its k-th transaction
ReplayBefore(asset, k) ==
    MonthlyReplay(ReplayStart(NoTrades), SubSeq(YearRows(asset.symbol), 1, k - 1),
                  asset.currency, usd_to_hkd_rate)

ReplayAfter(asset, k) ==
    MonthlyStep(ReplayBefore(asset, k), YearRows(asset.symbol)[k], asset.currency,
                usd_to_hkd_rate)

\* the lots a transaction closes against: long lots for a SELL, short lots for a BUY
Opposite(s, txn) == IF txn.action = "SELL" THEN s.long ELSE s.short

\* the quantity of the lots ahead of lot i
QuantityAhead(lots, i) == SumSeq([j \in 1..(i - 1) |-> lots[j].quantity])

\* the number of lots a closing quantity is matched against, oldest first
Matches(lots, qty) == Cardinality({i \in 1..Len(lots) : QuantityAhead(lots, i) < qty})

\* the quantity of lot i that the closing quantity takes
MatchedQuantity(lots, qty, i) == Min(lots[i].quantity, qty - QuantityAhead(lots, i))

\* a SELL larger than the long lots opens a short lot
OpensShort(s, txn) ==
    txn.action = "SELL" /\ txn.quantity > QuantityAhead(s.long, Len(s.long) + 1)

\* the holding days of the events one transaction is to record: one per lot
\* matched, then one for the short lot opened
ClaimedHoldingDays(s, txn) ==
    [i \in 1..Matches(Opposite(s, txn), txn.quantity) |->
        txn.date - Opposite(s, txn)[i].date]
      \o (IF OpensShort(s, txn) THEN <<0>> ELSE <<>>)

HoldingDaysOf(trades) == [i \in 1..Len(trades) |-> trades[i].holding_days]

\* C21: during the in-year replay, each match of a closing transaction against
\* one lot (long-close or short-cover) and each short-open records exactly one
\* trade event, in the month of the closing transaction's date, with
\* holding_days = closing date - matched lot's open date, and 0 for a newly
\* opened short; the events of the other months stay as they were.
C21_OneEventPerMatch ==
    \A asset \in Instruments : \A k \in 1..Len(YearRows(asset.symbol)) :
        LET txn == YearRows(asset.symbol)[k]
            s == ReplayBefore(asset, k)
            r == ReplayAfter(asset, k)
        IN  /\ HoldingDaysOf(r.trades[MonthOf(txn.date)])
                 = HoldingDaysOf(s.trades[MonthOf(txn.date)]) \o ClaimedHoldingDays(s, txn)
            /\ \A m \in Months \ {MonthOf(txn.date)} : r.trades[m] = s.trades[m]

\* a SELL in February that closes two long lots bought in January and opens a
\* short lot with the rest: three events, all in February
C21_Witness ==
    \E asset \in Instruments : \E k \in 1..Len(YearRows(asset.symbol)) :
        LET txn == YearRows(asset.symbol)[k]
            s == ReplayBefore(asset, k)
        IN  /\ txn.action = "SELL" /\ MonthOf(txn.date) = 2
            /\ Matches(s.long, txn.quantity) = 2
            /\ s.long[1].date = 0
            /\ OpensShort(s, txn)
            /\ HoldingDaysOf(ReplayAfter(asset, k).trades[2]) = <<40, 40, 0>>

\* the matching loop of one transaction, before its fee is deducted
Matched(s, txn, cur, rate) ==
    IF txn.action = "BUY"
    THEN MonthlyBuyLoop([s EXCEPT !.qty = txn.quantity], txn, cur, rate)
    ELSE MonthlySellLoop([s EXCEPT !.qty = txn.quantity], txn, cur, rate)

\* the cost basis of the lots one transaction closes, lot by lot, then 0 for the
\* short lot opened
ClaimedCostBasis(s, txn, cur, rate) ==
    [i \in 1..Matches(Opposite(s, txn), txn.quantity) |->
        convert_to_usd(Opposite(s, txn)[i].price
                         * MatchedQuantity(Opposite(s, txn), txn.quantity, i), cur, rate)]
      \o (IF OpensShort(s, txn) THEN <<0>> ELSE <<>>)

\* the percent means and the percents of the best and worst trade of a month are
\* taken from the events' profit_percent
PercentsFromEvents(trades) ==
    LET stats == MonthStats(trades)
        winners == SelectSeq(trades, LAMBDA x : x.profit > 0)
        losers == SelectSeq(trades, LAMBDA x : x.profit <= 0)
    IN  /\ winners # <<>> =>
              stats.avg_profit_percent = DecDiv(SumSeq(Percents(winners)), Len(winners))
        /\ losers # <<>> =>
              stats.avg_loss_percent = DecDiv(SumSeq(Percents(losers)), Len(losers))
        /\ trades # <<>> =>
              \E i \in 1..Len(trades) : /\ trades[i].profit = stats.max_profit
                                        /\ trades[i].profit_percent = stats.max_profit_percent
        /\ stats.max_loss < 0 =>
              \E i \in 1..Len(trades) : /\ trades[i].profit = stats.max_loss
                                        /\ trades[i].profit_percent = stats.max_loss_percent

\* the events of every month after both loops over the instruments, taken in
\* some order
FinalTrades(assets) ==
    LET a == ReplayAssets([trades |-> NoTrades, inventories |-> <<>>], assets,
                          transactions, usd_to_hkd_rate)
    IN  UnrealizedAssets([trades |-> a.trades, total |-> 0], assets, a.inventories,
                         usd_to_hkd_rate).trades

\* C22: every realized trade event, whether long-close, short-cover or
\* short-open, carries profit_percent = profit / the closed lot's cost basis (as a
\* percentage), and 0 when that cost basis is 0; the monthly percent means and
\* the percent reported with max_profit and max_loss use these per-event values.
C22_PercentOfCostBasis ==
    /\ \A asset \in Instruments : \A k \in 1..Len(YearRows(asset.symbol)) :
          LET txn == YearRows(asset.symbol)[k]
              s == ReplayBefore(asset, k)
              r == Matched(s, txn, asset.currency, usd_to_hkd_rate)
              m == MonthOf(txn.date)
              cost == ClaimedCostBasis(s, txn, asset.currency, usd_to_hkd_rate)
          IN  \A i \in 1..Len(cost) :
                 LET event == r.trades[m][Len(s.trades[m]) + i]
                 IN  event.profit_percent = ProfitPercent(event.profit, cost[i])
    /\ \A o \in Orders(YearAssets) : \A m \in Months : PercentsFromEvents(FinalTrades(o)[m])

\* the Asset rows read with other current prices
Repriced(assets, prices) ==
    [i \in 1..Len(assets) |-> [assets[i] EXCEPT !.current_price = prices[assets[i].symbol]]]

\* every instrument at the price it has when never set, and at a price above and
\* below the lots' prices
PriceMaps == {[symbol \in {"A", "B"} |-> price] : price \in CurrentPrices}

\* the lots of one instrument that are open when its in-year replay ends
OpenLots(asset) == ReplayBefore(asset, Len(YearRows(asset.symbol)) + 1)

OpenedIn(lots, m) == SelectSeq(lots, LAMBDA lot : MonthOf(lot.date) = m)

\* the profits of the unrealized events claimed for month m: one per lot opened
\* in m and still open, instrument by instrument; open[i] holds the lots of
\* assets[i] that are open when its in-year replay ends
RECURSIVE ClaimedUnrealized(_, _, _)
ClaimedUnrealized(assets, open, m) ==
    IF assets = <<>> THEN <<>>
    ELSE LET asset == Head(assets)
             long == OpenedIn(Head(open).long, m)
             short == OpenedIn(Head(open).short, m)
         IN  [i \in 1..Len(long) |->
                 convert_to_usd((asset.current_price - long[i].price) * long[i].quantity,
                                asset.currency, usd_to_hkd_rate)]
               \o [i \in 1..Len(short) |->
                      convert_to_usd((short[i].price - asset.current_price) * short[i].quantity,
                                     asset.currency, usd_to_hkd_rate)]
               \o ClaimedUnrealized(Tail(assets), Tail(open), m)

\* the first loop over `assets`, taken in the order o
Replayed(o) ==
    ReplayAssets([trades |-> NoTrades, inventories |-> <<>>], o, transactions,
                 usd_to_hkd_rate)

\* C23: each lot still open when the in-year replay of an instrument ends
\* contributes exactly one unrealized trade event, in the month in which that lot
\* was opened, with profit = (current price - open price) x remaining quantity for
\* a long lot and (open price - current price) x remaining quantity for a short
\* lot, normalized, a current price that was never set counting as 0; the events
\* of the replay stay as they were.
C23_OneUnrealizedEventPerOpenLot ==
    \A o \in Orders(YearAssets) : \A a \in {Replayed(o)} :
      \A open \in {[i \in 1..Len(o) |-> OpenLots(o[i])]} : \A prices \in PriceMaps :
        \A final \in {UnrealizedAssets([trades |-> a.trades, total |-> 0],
                                       Repriced(o, prices), a.inventories,
                                       usd_to_hkd_rate).trades} :
            \A m \in Months :
                /\ Len(final[m]) >= Len(a.trades[m])
                /\ SubSeq(final[m], 1, Len(a.trades[m])) = a.trades[m]
                /\ Profits(SubSeq(final[m], Len(a.trades[m]) + 1, Len(final[m])))
                     = ClaimedUnrealized(Repriced(o, prices), open, m)

\* a long lot of A opened in January and a short lot of B opened in February are
\* open at the end, part of the January lot was sold before
C23_Witness ==
    /\ Len(OpenedIn(OpenLots([symbol |-> "A", currency |-> "USD"]).long, 1)) = 1
    /\ Len(OpenedIn(OpenLots([symbol |-> "B", currency |-> "HKD"]).short, 2)) = 1
    /\ Len(YearRows("A")) = 2
    /\ \A o \in Orders(YearAssets) :
          /\ Len(FinalTrades(o)[1]) = 2
          /\ FinalTrades(o)[1][2].profit # 0

\* q is the quotient a / b rounded to the unit (b > 0)
IsQuotient(q, a, b) == 2 * Abs(q * b - a) <= b

Winners(trades) == {i \in 1..Len(trades) : trades[i].profit > 0}

Losers(trades) == {i \in 1..Len(trades) : trades[i].profit <= 0}

RECURSIVE ProfitOver(_, _)
ProfitOver(trades, I) ==
    IF I = {} THEN 0
    ELSE LET i == CHOOSE j \in I : TRUE IN trades[i].profit + ProfitOver(trades, I \ {i})

\* what both readings of C24 share: the count, the split into winners and
\* losers, their mean profits, and the month without events
CountsAndMeans(trades, stats) ==
    /\ stats.total_trades = Len(trades)
    /\ Winners(trades) \cup Losers(trades) = 1..Len(trades)
    /\ Winners(trades) \cap Losers(trades) = {}
    /\ IF Winners(trades) = {} THEN stats.avg_profit = 0
       ELSE IsQuotient(stats.avg_profit, ProfitOver(trades, Winners(trades)),
                       Cardinality(Winners(trades)))
    /\ IF Losers(trades) = {} THEN stats.avg_loss = 0
       ELSE IsQuotient(stats.avg_loss, ProfitOver(trades, Losers(trades)),
                       Cardinality(Losers(trades)))
    /\ trades = <<>> =>
          /\ stats.total_trades = 0 /\ stats.win_rate = 0
          /\ stats.avg_profit = 0 /\ stats.avg_loss = 0
          /\ stats.avg_profit_percent = 0 /\ stats.avg_loss_percent = 0
          /\ stats.max_profit = 0 /\ stats.max_loss = 0
          /\ stats.max_profit_percent = 0 /\ stats.max_loss_percent = 0
          /\ stats.profit = 0

\* C24 as stated: for every month, total_trades equals the number of trade
\* events attributed to that month, win_rate equals count(profit > 0) /
\* total_trades, every event is counted either as a winner (profit > 0) or as a
\* loser (profit <= 0) and never both, avg_profit is the mean profit of the
\* winners and avg_loss the mean profit of the losers, and a month without events
\* reports total_trades 0 with all numeric fields 0.
C24_WinRateIsRatio ==
    \A o \in Orders(YearAssets) : \A final \in {FinalTrades(o)} : \A m \in Months :
        LET stats == MonthStats(final[m])
        IN  /\ CountsAndMeans(final[m], stats)
            /\ final[m] # <<>> =>
                  stats.win_rate * Len(final[m]) = Cardinality(Winners(final[m]))

\* C24 amended: as above, with win_rate = count(profit > 0) / total_trades x 100,
\* a percentage.
C24_MonthlyCounts ==
    \A o \in Orders(YearAssets) : \A final \in {FinalTrades(o)} : \A m \in Months :
        LET stats == MonthStats(final[m])
        IN  /\ CountsAndMeans(final[m], stats)
            /\ final[m] # <<>> =>
                  IsQuotient(stats.win_rate, 100 * Cardinality(Winners(final[m])),
                             Len(final[m]))

\* a month with a winner, a loser of profit 0 and a loser of negative profit
C24_Witness ==
    \E o \in Orders(YearAssets) : \E m \in Months :
        LET trades == FinalTrades(o)[m]
        IN  /\ Winners(trades) # {}
            /\ \E i, j \in Losers(trades) : trades[i].profit = 0 /\ trades[j].profit < 0
            /\ MonthStats(trades).win_rate = 33

Greatest(trades) == CHOOSE p \in {trades[i].profit : i \in 1..Len(trades)} :
                        \A i \in 1..Len(trades) : trades[i].profit <= p

Least(trades) == CHOOSE p \in {trades[i].profit : i \in 1..Len(trades)} :
                     \A i \in 1..Len(trades) : trades[i].profit >= p

\* some event of profit p has profit_percent pct
Attains(trades, p, pct) ==
    \E i \in 1..Len(trades) : trades[i].profit = p /\ trades[i].profit_percent = pct

\* C25 as stated: for every month with at least one event, max_profit is the
\* greatest and max_loss the least single-event profit of that month, each
\* reported with the profit_percent of an event that attains it, so that
\* max_loss <= max_profit always holds.
C25_ExtremalProfits ==
    \A o \in Orders(YearAssets) : \A final \in {FinalTrades(o)} : \A m \in Months :
        final[m] # <<>> =>
            LET stats == MonthStats(final[m])
            IN  /\ stats.max_profit = Greatest(final[m])
                /\ Attains(final[m], stats.max_profit, stats.max_profit_percent)
                /\ stats.max_loss = Least(final[m])
                /\ Attains(final[m], stats.max_loss, stats.max_loss_percent)
                /\ stats.max_loss <= stats.max_profit

\* C25 amended: max_profit is the greatest single-event profit, reported with the
\* profit_percent of an event that attains it; max_loss is the least
\* single-event profit, with the percent of an event that attains it, when that
\* profit is negative, and 0 with percent 0 when no event of the month has a
\* negative profit; max_loss <= max_profit always holds.
C25_BestAndWorstTrade ==
    \A o \in Orders(YearAssets) : \A final \in {FinalTrades(o)} : \A m \in Months :
        final[m] # <<>> =>
            LET stats == MonthStats(final[m])
            IN  /\ stats.max_profit = Greatest(final[m])
                /\ Attains(final[m], stats.max_profit, stats.max_profit_percent)
                /\ IF Least(final[m]) < 0
                   THEN /\ stats.max_loss = Least(final[m])
                        /\ Attains(final[m], stats.max_loss, stats.max_loss_percent)
                   ELSE stats.max_loss = 0 /\ stats.max_loss_percent = 0
                /\ stats.max_loss <= stats.max_profit

\* a month whose best trade is not its first and has another percent than the
\* first, with a losing trade as well; and a month of winning trades only
C25_Witness ==
    \E o \in Orders(YearAssets) : \E m1, m2 \in Months :
        LET final == FinalTrades(o)
        IN  /\ Len(final[m1]) >= 2
            /\ Least(final[m1]) < 0
            /\ final[m1][1].profit < Greatest(final[m1])
            /\ final[m1][1].profit_percent # MonthStats(final[m1]).max_profit_percent
            /\ final[m2] # <<>>
            /\ Least(final[m2]) > 0

\* C26: summary.total_profit equals the sum of the twelve monthly profit values,
\* total_profit_percent equals total_profit / starting_capital x 100 and is 0
\* whenever starting_capital <= 0, and unrealized_profit equals the sum of the
\* profits of the unrealized events of the year, with its percent computed and
\* guarded the same way.
C26_YearSummary ==
    \A o \in Orders(YearAssets) : \A out \in {MonthlyTracking(o)} :
      \A open \in {[i \in 1..Len(o) |-> OpenLots(o[i])]} :
        LET summary == out.summary
            capital == starting_capital(cashflows, transactions, usd_to_hkd_rate)
        IN  /\ summary.total_profit = SumSeq([m \in Months |-> out.months[m].profit])
            /\ summary.unrealized_profit
                 = SumSeq([m \in Months |-> SumSeq(ClaimedUnrealized(o, open, m))])
            /\ summary.starting_capital = capital
            /\ IF capital <= 0
               THEN summary.total_profit_percent = 0 /\ summary.unrealized_profit_percent = 0
               ELSE /\ IsQuotient(summary.total_profit_percent,
                                  100 * summary.total_profit, capital)
                    /\ IsQuotient(summary.unrealized_profit_percent,
                                  100 * summary.unrealized_profit, capital)

\* a year with realized and unrealized profit in two months over a positive
\* starting capital
C26_Witness ==
    \E o \in Orders(YearAssets) :
        LET out == MonthlyTracking(o)
        IN  /\ out.summary.starting_capital > 0
            /\ out.months[1].profit # 0 /\ out.months[2].profit # 0
            /\ out.summary.unrealized_profit # 0
            /\ out.summary.unrealized_profit # out.summary.total_profit
            /\ out.summary.total_profit_percent # 0
            /\ out.summary.unrealized_profit_percent # 0

\* a year with realized and unrealized profit over a starting capital that is
\* not positive
C26_GuardWitness ==
    \E o \in Orders(YearAssets) :
        LET out == MonthlyTracking(o)
        IN  /\ out.summary.starting_capital <= 0
            /\ out.summary.total_profit # 0
            /\ out.summary.unrealized_profit # 0

(***************************************************************************)
(* The position snapshot and the monthly aggregation of one instrument,     *)
(* degenerate inputs included: transactions at price 0, an account without *)
(* cashflows, the empty log.                                               *)
(***************************************************************************)
\* Transaction.price has no lower bound: a lot may have price 0
SnapshotTerms ==
    {[price |-> 0, quantity |-> 2, fees |-> 0], [price |-> 10, quantity |-> 5, fees |-> 1],
     [price |-> 30, quantity |-> 2, fees |-> 1]}

\* the one instrument traded
TheAsset == [symbol |-> "B", currency |-> "HKD", current_price |-> 20]

\* a transaction of the instrument is stored; inventory, short_inventory and
\* realized_pl hold what calculate_position has after replaying all of them
ReplayStored ==
    /\ Len(transactions) < MaxLog
    /\ \E action \in {"BUY", "SELL"}, terms \in SnapshotTerms, d \in Dates :
          LET txn == DatedTxn(action, terms, TheAsset, d)
              fees_usd == convert_to_usd(txn.fees, asset_currency, usd_to_hkd_rate)
              buy == BuyLoop(LoopStart(txn.quantity), txn.price, asset_currency,
                             usd_to_hkd_rate)
              sell == SellLoop(LoopStart(txn.quantity), txn, asset_currency, usd_to_hkd_rate)
          IN  /\ transactions # <<>> => d >= transactions[Len(transactions)].date
              /\ transactions' = Append(transactions, txn)
              /\ IF action = "BUY"
                 THEN /\ short_inventory' = buy.short
                      /\ inventory' = BuyOpenLong(inventory, buy.qty, txn)
                      /\ realized_pl' = RealizedAfter(realized_pl, buy.gain, fees_usd)
                 ELSE /\ inventory' = sell.long
                      /\ short_inventory' = sell.short
                      /\ realized_pl' = RealizedAfter(realized_pl, sell.gain, fees_usd)
    /\ balance' = BalanceAfterStore(transactions')
    /\ UNCHANGED <<asset_currency, usd_to_hkd_rate, total_dividends, t, pre, iters, n, ref>>
    /\ UNCHANGED <<lock, pc, cash_data, created, events, fresh, runs, failed>>
    /\ UNCHANGED <<cashflows, extVars>>

SnapshotInit ==
    /\ asset_currency = TheAsset.currency
    /\ usd_to_hkd_rate \in Rates
    /\ LedgerStart
    /\ Idle
    /\ cashflows = <<>>
    /\ transactions = <<>>
    /\ balance = BalanceRow(current_cash)

SnapshotNext == ReplayStored

SpecSnapshot == SnapshotInit /\ [][SnapshotNext]_vars

\* the dividend the instrument pays: 3 a share on 5 shares
DividendTerms == [price |-> 3, quantity |-> 5, fees |-> 0]

\* a dividend of the instrument is stored; total_dividends holds what
\* calculate_position has after replaying the log
DividendStored ==
    /\ Len(transactions) < MaxLog
    /\ \E d \in Dates :
          LET txn == DatedTxn("DIVIDEND", DividendTerms, TheAsset, d)
          IN  /\ transactions # <<>> => d >= transactions[Len(transactions)].date
              /\ transactions' = Append(transactions, txn)
              /\ total_dividends' = total_dividends
                    + convert_to_usd(total_amount(txn), asset_currency, usd_to_hkd_rate)
    /\ balance' = BalanceAfterStore(transactions')
    /\ UNCHANGED <<asset_currency, usd_to_hkd_rate, inventory, short_inventory, realized_pl,
                   t, pre, iters, n, ref>>
    /\ UNCHANGED <<lock, pc, cash_data, created, events, fresh, runs, failed>>
    /\ UNCHANGED <<cashflows, extVars>>

\* the instrument's log with its dividends
LogNext == ReplayStored \/ DividendStored

SpecLog == SnapshotInit /\ [][LogNext]_vars

\* a field is a defined number or, for the holding-day means, null
Defined(x) == x \in Int

\* every percent field of a month's entry and of the summary
PercentFields(stats) ==
    {stats.win_rate, stats.avg_profit_percent, stats.avg_loss_percent,
     stats.max_profit_percent, stats.max_loss_percent}

\* the events of one month whose holding_days count for the mean
Held(trades, I) == {i \in I : trades[i].holding_days > 0}

\* the divisions of the position snapshot and what it reports when flat
PositionGuarded(cp) ==
    LET long_quantity == TotalQty(inventory)
        short_quantity == TotalQty(short_inventory)
        snapshot == Position(cp)
    IN  /\ usd_to_hkd_rate # 0
        /\ long_quantity - short_quantity > 0 => long_quantity # 0
        /\ long_quantity - short_quantity < 0 => short_quantity # 0
        /\ Defined(snapshot.avg_cost) /\ Defined(snapshot.unrealized_pl)
        /\ Defined(snapshot.current_market_value)
        /\ snapshot.quantity = 0 => snapshot.avg_cost = 0

\* the entry of one month
MonthGuarded(trades) ==
    LET stats == MonthStats(trades)
    IN  /\ \A x \in PercentFields(stats) : Defined(x)
        /\ Defined(stats.avg_profit) /\ Defined(stats.avg_loss)
        /\ trades = <<>> => \A x \in PercentFields(stats) : x = 0
        /\ Winners(trades) = {} => stats.avg_profit_percent = 0 /\ stats.win_rate = 0
        /\ Losers(trades) = {} => stats.avg_loss_percent = 0
        /\ stats.avg_holding_days_success = NoAverage <=> Held(trades, Winners(trades)) = {}
        /\ stats.avg_holding_days_fail = NoAverage <=> Held(trades, Losers(trades)) = {}
        /\ \A i \in 1..Len(trades) : Defined(trades[i].profit_percent)

\* an event that closes a long lot of price 0, or values one, has percent 0
ZeroCostBasisGuarded(o) ==
    /\ \A k \in 1..Len(YearRows(TheAsset.symbol)) :
          LET txn == YearRows(TheAsset.symbol)[k]
              s == ReplayBefore(TheAsset, k)
              r == Matched(s, txn, TheAsset.currency, usd_to_hkd_rate)
              m == MonthOf(txn.date)
              cost == ClaimedCostBasis(s, txn, TheAsset.currency, usd_to_hkd_rate)
          IN  \A i \in 1..Len(cost) :
                 cost[i] = 0 => r.trades[m][Len(s.trades[m]) + i].profit_percent = 0
    /\ \A m \in Months :
          LET replayed == Replayed(o).trades[m]
              final == FinalTrades(o)[m]
              lots == OpenedIn(OpenLots(TheAsset).long, m)
                        \o OpenedIn(OpenLots(TheAsset).short, m)
          IN  \A i \in 1..Len(lots) :
                 lots[i].price = 0 => final[Len(replayed) + i].profit_percent = 0

\* C27: for every well-formed input, including an empty event list, a flat
\* position, a lot with price 0, a month without events and a non-positive
\* starting capital, the position snapshot and the monthly aggregation divide by
\* no zero: avg_cost, win_rate and every percent field are a defined 0 in these
\* cases, and avg_holding_days_success and avg_holding_days_fail are null when
\* no winning or losing event has holding_days > 0.
C27_DegenerateDenominators ==
    /\ \A cp \in CurrentPrices : PositionGuarded(cp)
    /\ \A o \in Orders(YearAssets) : \A out \in {MonthlyTracking(o)} :
          /\ \A m \in Months : MonthGuarded(FinalTrades(o)[m])
          /\ \A m \in Months : out.months[m] = MonthStats(FinalTrades(o)[m])
          /\ ZeroCostBasisGuarded(o)
          /\ Defined(out.summary.total_profit_percent)
          /\ Defined(out.summary.unrealized_profit_percent)
          /\ out.summary.starting_capital <= 0 =>
                /\ out.summary.total_profit_percent = 0
                /\ out.summary.unrealized_profit_percent = 0

\* a lot of price 0 bought in January and sold in February: the position is
\* flat, the event has cost basis 0 and 40 holding days, the starting capital
\* is not positive, and no winning event exists
C27_Witness ==
    /\ transactions # <<>>
    /\ inventory = <<>> /\ short_inventory = <<>>
    /\ \E o \in Orders(YearAssets) :
          LET out == MonthlyTracking(o)
          IN  /\ out.summary.starting_capital <= 0
              /\ out.months[2].total_trades = 1
              /\ out.months[2].avg_holding_days_fail = 40
              /\ out.months[2].avg_holding_days_success = NoAverage
              /\ out.months[1].total_trades = 0
    /\ \E k \in 1..Len(YearRows(TheAsset.symbol)) :
          0 \in {ClaimedCostBasis(ReplayBefore(TheAsset, k), YearRows(TheAsset.symbol)[k],
                                  TheAsset.currency, usd_to_hkd_rate)[i] :
                    i \in 1..Matches(ReplayBefore(TheAsset, k).long,
                                     YearRows(TheAsset.symbol)[k].quantity)}
             /\ YearRows(TheAsset.symbol)[k].action = "SELL"

\* price x quantity summed over lots
RECURSIVE LotsValue(_)
LotsValue(lots) ==
    IF lots = <<>> THEN 0 ELSE Head(lots).price * Head(lots).quantity + LotsValue(Tail(lots))

NetQuantityHeld == TotalQty(inventory) - TotalQty(short_inventory)

\* C28: avg_cost equals the total cost of the open long lots divided by the total
\* long quantity when the net quantity is positive, the total sale proceeds of
\* the open short lots divided by the total short quantity when the net quantity
\* is negative, and 0 when the net quantity is zero, expressed in base currency.
C28_AvgCost ==
    \A cp \in CurrentPrices :
        /\ Position(cp).quantity = NetQuantityHeld
        /\ NetQuantityHeld > 0 =>
              IsQuotient(Position(cp).avg_cost, Normalize(LotsValue(inventory)),
                         TotalQty(inventory))
        /\ NetQuantityHeld < 0 =>
              IsQuotient(Position(cp).avg_cost, Normalize(LotsValue(short_inventory)),
                         TotalQty(short_inventory))
        /\ NetQuantityHeld = 0 => Position(cp).avg_cost = 0

\* two short lots of the HKD instrument sold at different prices, the first
\* partly covered
C28_Witness ==
    /\ asset_currency = "HKD"
    /\ Len(short_inventory) = 2
    /\ short_inventory[1].price # short_inventory[2].price
    /\ short_inventory[1].quantity = 3
    /\ \A cp \in CurrentPrices : Position(cp).avg_cost > 0

\* C29: current_market_value equals the signed net quantity x current price
\* (normalized) and equals long_market_value - short_market_value with both
\* components reported as non-negative; unrealized_pl equals market value - cost
\* basis of the open long lots when net-long, (avg_cost - current price) x
\* |quantity| when net-short, and 0 when flat.
C29_MarketValueAndUnrealized ==
    \A cp \in CurrentPrices :
        LET snapshot == Position(cp)
        IN  /\ snapshot.current_market_value = Normalize(NetQuantityHeld * cp)
            /\ snapshot.current_market_value
                 = snapshot.long_market_value - snapshot.short_market_value
            /\ snapshot.long_market_value >= 0 /\ snapshot.short_market_value >= 0
            /\ NetQuantityHeld > 0 =>
                  snapshot.unrealized_pl
                    = snapshot.current_market_value - Normalize(LotsValue(inventory))
            /\ NetQuantityHeld < 0 =>
                  snapshot.unrealized_pl
                    = (snapshot.avg_cost - Normalize(cp)) * Abs(NetQuantityHeld)
            /\ NetQuantityHeld = 0 => snapshot.unrealized_pl = 0

\* a short position of the HKD instrument in two lots sold at different prices:
\* its market value is negative at a current price between them, and it shows a
\* gain at the current price of an instrument never priced
C29_Witness ==
    /\ asset_currency = "HKD"
    /\ Len(short_inventory) = 2
    /\ short_inventory[1].price < 20 /\ short_inventory[2].price > 20
    /\ Position(20).short_market_value > 0
    /\ Position(20).current_market_value < 0
    /\ Position(0).unrealized_pl > 0

(***************************************************************************)
(* The computations and the state they share                               *)
(***************************************************************************)
\* a position snapshot, a cash reconciliation or a monthly aggregation ran in
\* this step: each begins by asking for the rate (services.py:99, 517-518, 725)
ComputationRan ==
    /\ calls' = calls + 1
    /\ dash_pc' = dash_pc \/ dash_pc = "cash"

\* C30: a Lot Ledger, Cash Reconciliation or Monthly Aggregator computation
\* reads its inputs and leaves every state outside its own local variables
\* unchanged: the stored transactions and cashflows, the persisted balance
\* cache, and all process-wide state shared with computations of other accounts
\* (the rate cache of the process is such state), so that concurrent computations
\* for different accounts return the same results as when run one after the
\* other. Stated as the frame condition the conclusion rests on.
C30_ComputationsLeaveStateUnchanged ==
    [][ComputationRan =>
          /\ UNCHANGED <<cashflows, transactions, balance>>
          /\ exchange_rate_cache' = exchange_rate_cache]_vars

(***************************************************************************)
(* The callers of calculate_position and the order they replay in          *)
(***************************************************************************)
\* rows[1..k] followed by row, row moved ahead of the rows dated later: one
\* step of the stable sort by date
RECURSIVE InsertByDate(_, _)
InsertByDate(rows, row) ==
    IF rows = <<>> \/ rows[Len(rows)].date <= row.date THEN Append(rows, row)
    ELSE Append(InsertByDate(SubSeq(rows, 1, Len(rows) - 1), row), rows[Len(rows)])

\* `.order_by('date', 'created_at')` over rows kept in creation order
\* (views.py:55, 699; services.py:522, 795, 874)
RECURSIVE OrderByDateCreated(_)
OrderByDateCreated(rows) ==
    IF rows = <<>> THEN <<>>
    ELSE InsertByDate(OrderByDateCreated(SubSeq(rows, 1, Len(rows) - 1)), rows[Len(rows)])

\* `.order_by('date')` (daily_snapshot.py:124): the rows of one date come in
\* whatever order the database returns them in
OrderByDate(rows) ==
    {[i \in 1..Len(rows) |-> rows[f[i]]] :
        f \in {g \in [1..Len(rows) -> 1..Len(rows)] :
                 /\ \A i, j \in 1..Len(rows) : i # j => g[i] # g[j]
                 /\ \A i, j \in 1..Len(rows) : i < j => rows[g[i]].date <= rows[g[j]].date}}

\* PortfolioDashboardView.get; the un-prefetched fallback runs the same query
DashboardPosition(cp) ==
    calculate_position(OrderByDateCreated(transactions), asset_currency, usd_to_hkd_rate, cp)

\* Command.create_snapshot_for_user: the positions it may store
SnapshotPositions(cp) ==
    {calculate_position(o, asset_currency, usd_to_hkd_rate, cp) : o \in OrderByDate(transactions)}

\* C31: every caller of the Lot Ledger passes the instrument's transactions
\* sorted ascending by (date, creation-sequence), so transactions sharing a
\* date are replayed in creation order and the position computed for the same
\* stored data is the same in every caller.
C31_CallersReplayInCreationOrder ==
    /\ OrderByDate(transactions) = {OrderByDateCreated(transactions)}
    /\ \A cp \in CurrentPrices : SnapshotPositions(cp) = {DashboardPosition(cp)}

\* the part of C31 about the result alone: whatever order the daily snapshot
\* replays in, it stores the realized_pl and avg_cost the dashboard shows
C31_SamePositionInEveryCaller ==
    \A cp \in CurrentPrices : \A p \in SnapshotPositions(cp) :
        /\ p.realized_pl = DashboardPosition(cp).realized_pl
        /\ p.avg_cost = DashboardPosition(cp).avg_cost

(***************************************************************************)
(* Currency closure of calculate_position                                  *)
(***************************************************************************)
\* a transaction with its price and fee converted to the base currency by
\* hand: amount / rate, rounded as a Decimal quotient is
InBase(row, rate) ==
    [row EXCEPT !.price = DecDiv(row.price, rate), !.fees = DecDiv(row.fees, rate),
                !.currency = "USD"]

\* the position replayed with the conversion inside the ledger
ConvertedInside(cp) == calculate_position(transactions, asset_currency, usd_to_hkd_rate, cp)

\* the position of the log converted first and replayed as a base-currency
\* instrument, its current price converted like the other prices
ConvertedFirst(cp) ==
    calculate_position([i \in 1..Len(transactions) |-> InBase(transactions[i], usd_to_hkd_rate)],
                       "USD", usd_to_hkd_rate, DecDiv(cp, usd_to_hkd_rate))

\* the rows of the log with one of the actions, and the shares they are about
RowsOf(actions) == SelectSeq(transactions, LAMBDA row : row.action \in actions)

SharesOf(actions) == SumSeq([i \in 1..Len(RowsOf(actions)) |-> RowsOf(actions)[i].quantity])

TableRow(cd, p) ==
    [cash_usd |-> cd.USD, cash_hkd |-> cd.HKD, total_in_base |-> cd.total_in_base,
     by |-> p, lock |-> p]

\* the table without the constraint on user
ConflictsMut(table) == FALSE

\* `user = models.ForeignKey(User, ..., unique=True)`: an INSERT conflicts
\* with any row the account has, committed or not
Conflicts(table) == table # <<>>

\* the rows the SELECT of request p sees
Visible(p) == {i \in 1..Len(account_balances) : account_balances[i].by \in {0, p}}

\* an exception leaves update_account_balance_cache: the database transaction is
\* rolled back, its inserted row is gone and its lock released
RolledBack(p) ==
    LET kept == SelectSeq(account_balances, LAMBDA row : row.by # p)
    IN  [i \in 1..Len(kept) |-> IF kept[i].lock = p THEN [kept[i] EXCEPT !.lock = 0]
                                ELSE kept[i]]

Raise(p) ==
    /\ account_balances' = RolledBack(p)
    /\ pc' = [pc EXCEPT ![p] = "idle"]
    /\ Return(p)

\* get_or_create, `self.get(user=user)` FOR UPDATE: no row seen, or the row
\* locked once no other transaction holds it, or MultipleObjectsReturned
SelectForUpdate(p) ==
    /\ pc[p] = "get_or_create"
    /\ IF Visible(p) = {}
       THEN /\ pc' = [pc EXCEPT ![p] = "create"]
            /\ UNCHANGED <<account_balances, cash_data, created, fresh>>
       ELSE IF Cardinality(Visible(p)) > 1
       THEN Raise(p)
       ELSE \E i \in Visible(p) :
               /\ account_balances[i].lock = 0
               /\ account_balances' = [account_balances EXCEPT ![i].lock = p]
               /\ created' = [created EXCEPT ![p] = FALSE]
               /\ pc' = [pc EXCEPT ![p] = "save"]
               /\ UNCHANGED <<cash_data, fresh>>
    /\ UNCHANGED <<balance, lock, events, runs, failed>>
    /\ UNCHANGED <<ledgerVars, cashVars, ingestVars, rateVars>>

\* get_or_create, `self.create(**params)`: the INSERT waits while a conflicting
\* row is uncommitted and raises IntegrityError once it is committed
Insert(p) ==
    /\ pc[p] = "create"
    /\ IF Conflicts(account_balances)
       THEN /\ \A i \in 1..Len(account_balances) : account_balances[i].by = 0
            /\ pc' = [pc EXCEPT ![p] = "get_again"]
            /\ UNCHANGED <<account_balances, created>>
       ELSE /\ account_balances' = Append(account_balances, TableRow(cash_data[p], p))
            /\ created' = [created EXCEPT ![p] = TRUE]
            /\ pc' = [pc EXCEPT ![p] = "save"]
    /\ UNCHANGED <<balance, lock, cash_data, events, fresh, runs, failed>>
    /\ UNCHANGED <<ledgerVars, cashVars, ingestVars, rateVars>>

\* get_or_create after IntegrityError: `self.get(user=user)` once more
SelectAgain(p) ==
    /\ pc[p] = "get_again"
    /\ IF Cardinality(Visible(p)) # 1
       THEN Raise(p)
       ELSE \E i \in Visible(p) :
               /\ account_balances[i].lock = 0
               /\ account_balances' = [account_balances EXCEPT ![i].lock = p]
               /\ created' = [created EXCEPT ![p] = FALSE]
               /\ pc' = [pc EXCEPT ![p] = "save"]
               /\ UNCHANGED <<cash_data, fresh>>
    /\ UNCHANGED <<balance, lock, events, runs, failed>>
    /\ UNCHANGED <<ledgerVars, cashVars, ingestVars, rateVars>>

\* `if not created: ... balance.save(update_fields=[...])`, then the atomic
\* block commits: the row is visible to all and unlocked
SaveAndCommit(p) ==
    /\ pc[p] = "save"
    /\ account_balances' =
          [i \in 1..Len(account_balances) |->
              LET row == account_balances[i]
              IN  IF row.lock # p THEN row
                  ELSE [(IF created[p] THEN row ELSE SavedRow(row, cash_data[p]))
                           EXCEPT !.by = 0, !.lock = 0]]
    /\ pc' = [pc EXCEPT ![p] = "idle"]
    /\ Return(p)
    /\ UNCHANGED <<balance, lock, events, runs, failed>>
    /\ UNCHANGED <<ledgerVars, cashVars, ingestVars, rateVars>>

\* the database refuses a statement of the transaction (a lock wait that times
\* out, a failed write)
StatementFails(p) ==
    /\ pc[p] \in {"create", "get_again", "save"}
    /\ Raise(p)
    /\ UNCHANGED <<balance, lock, events, runs, failed>>
    /\ UNCHANGED <<ledgerVars, cashVars, ingestVars, rateVars>>

TableNext ==
    \E p \in Procs :
        \/ CashFlowCreated(p)
        \/ TransactionCreated(p)
        \/ ComputeCashData(p)
        \/ SelectForUpdate(p)
        \/ Insert(p)
        \/ SelectAgain(p)
        \/ SaveAndCommit(p)
        \/ StatementFails(p)

SpecTable == CashInit /\ [][TableNext]_vars

\* C33: in every reachable state there is at most one persisted cache record
\* per account, including when two recomputations for an account that has no
\* record yet run concurrently.
C33_OneRowPerAccount == Len(account_balances) <= 1

\* two recomputations found no row; one inserted and committed it, the
\* INSERT of the other was refused and it is about to read that row
C33_Witness ==
    /\ Len(account_balances) = 1
    /\ account_balances[1].by = 0 /\ account_balances[1].lock = 0
    /\ \E p, q \in Procs :
          /\ pc[p] = "get_again"
          /\ pc[q] = "idle"
          /\ account_balances[1].cash_usd # cash_data[p].USD

(***************************************************************************)
(* The two queues of calculate_position                                    *)
(***************************************************************************)
\* C34: after every transaction of any replay that starts with both queues
\* empty, the long queue and the short queue are never both non-empty: the
\* position is entirely long, entirely short or flat.
C34_OneSidedPosition == inventory = <<>> \/ short_inventory = <<>>

\* a BUY larger than the short lots held: it covered them all and the rest of
\* it is the one long lot
C34_Witness ==
    /\ t.action = "BUY"
    /\ pre.long = <<>> /\ pre.short # <<>>
    /\ short_inventory = <<>>
    /\ Len(inventory) = 1
    /\ inventory[1].quantity = t.quantity - TotalQty(pre.short)

(***************************************************************************)
(* The fee of a transaction in the monthly aggregation                     *)
(***************************************************************************)
\* monthly_trades when the loop over the instruments reaches assets[j]
TradesBefore(assets, j) ==
    ReplayAssets([trades |-> NoTrades, inventories |-> <<>>], SubSeq(assets, 1, j - 1),
                 transactions, usd_to_hkd_rate).trades

\* the replay of assets[j] before its k-th transaction of the year, the events
\* of the instruments replayed earlier included
StepBefore(assets, j, k) ==
    MonthlyReplay(ReplayStart(TradesBefore(assets, j)),
                  SubSeq(YearRows(assets[j].symbol), 1, k - 1), assets[j].currency,
                  usd_to_hkd_rate)

\* C35: the fee of a BUY or SELL is deducted exactly once and only from a trade
\* event produced by that same transaction; a transaction that produces no
\* trade event (a BUY that only opens a long lot) changes the profit of no
\* trade event of any instrument.
C35_FeeDeductedFromOwnEvent ==
    \A o \in Orders(YearAssets) : \A j \in 1..Len(o) :
        \A k \in 1..Len(YearRows(o[j].symbol)) :
            LET txn == YearRows(o[j].symbol)[k]
                s == StepBefore(o, j, k)
                gross == Matched(s, txn, o[j].currency, usd_to_hkd_rate)
                r == MonthlyStep(s, txn, o[j].currency, usd_to_hkd_rate)
                m == MonthOf(txn.date)
                before == Len(s.trades[m])
                own == (before + 1)..Len(r.trades[m])
                fees_usd == convert_to_usd(txn.fees, o[j].currency, usd_to_hkd_rate)
            IN  /\ \A i \in 1..before : r.trades[m][i].profit = s.trades[m][i].profit
                /\ own # {} =>
                      SumSeq([i \in 1..(Len(r.trades[m]) - before) |->
                                 r.trades[m][before + i].profit])
                        = SumSeq([i \in 1..(Len(r.trades[m]) - before) |->
                                     gross.trades[m][before + i].profit]) - fees_usd

(***************************************************************************)
(* The aggregator's replay against calculate_position's                    *)
(***************************************************************************)
\* the aggregator's replay of one instrument's transactions of the year
AggregatorReplay(asset) ==
    MonthlyReplay(ReplayStart(NoTrades), YearRows(asset.symbol), asset.currency,
                  usd_to_hkd_rate)

\* calculate_position's replay of the same list
LedgerReplayOf(asset) ==
    LedgerReplay(EmptyLedger, YearRows(asset.symbol), asset.currency, usd_to_hkd_rate)

\* the profits of the events of all months, added up
TotalProfit(trades) == SumSeq([m \in 1..12 |-> SumSeq(Profits(trades[m]))])

\* the lots left open are the same in both replays
C36_SameOpenLots ==
    \A asset \in Instruments :
        /\ AggregatorReplay(asset).long = LedgerReplayOf(asset).long
        /\ AggregatorReplay(asset).short = LedgerReplayOf(asset).short

\* C36: for one instrument and the same ordered list of in-year transactions,
\* the sum of the profits of the realized trade events recorded by the
\* aggregator equals the realized_pl that calculate_position returns for that
\* list, and the lots left open in the aggregator equal the lots left open in
\* calculate_position.
C36_AggregatorMatchesLedger ==
    /\ \A asset \in Instruments :
          TotalProfit(AggregatorReplay(asset).trades)
            = calculate_position(YearRows(asset.symbol), asset.currency, usd_to_hkd_rate,
                                 asset.current_price).realized_pl
    /\ C36_SameOpenLots

(***************************************************************************)
(* A failed cache write and the event that triggered it                    *)
(***************************************************************************)
\* the handler of request p ends in this step with its write having failed
HandlerFailed(p) == pc[p] = "save" /\ pc'[p] = "idle" /\ failed'

\* C37: a failure while updating the cache inside a post-save or post-delete
\* handler is caught and logged and never prevents or undoes the create,
\* update or delete that triggered it: the change to the event log persists,
\* and the cache record keeps the values it had before the failed write (it
\* was left as it was when the write began and while it was open, and a row
\* inserted by the failed write is gone).
C37_FailedWriteLeavesLogAndCache ==
    [][\A p \in Procs :
          /\ (pc[p] = "get_or_create" /\ pc'[p] = "save" /\ balance.exists) => balance' = balance
          /\ (pc[p] = "save" /\ pc'[p] = "save") => balance' = balance
          /\ HandlerFailed(p) =>
                /\ cashflows' = cashflows /\ transactions' = transactions
                /\ events' = events
                /\ balance' = IF created[p] THEN NoBalance ELSE balance]_vars

\* a second deposit was committed and its handler's write failed: both
\* deposits are in the log, the row holds the balance of the first
C37_Witness ==
    /\ failed /\ Quiet
    /\ Len(cashflows) = 2 /\ cashflows[1].type = "DEPOSIT" /\ cashflows[2].type = "DEPOSIT"
    /\ transactions = <<>>
    /\ balance.exists
    /\ balance = BalanceRow(calculate_current_cash(<<cashflows[1]>>, <<>>, "USD", usd_to_hkd_rate))
    /\ balance # BalanceRow(current_cash)

====
